---- MODULE Spec2Model ----
(***************************************************************************)
(* A model of the flamego core: the middleware chain runtime               *)
(* (context.run / context.Next), the route tree (AddRoute / Match) and     *)
(* the router's static fast map with header matchers.                      *)
(*                                                                         *)
(* Go strings are modelled as sequences of one-character strings, so that  *)
(* splitting at "/", trimming and counting are computed, not assumed.      *)
(***************************************************************************)
EXTENDS Integers, Sequences, FiniteSets, TLC

VARIABLES
    \* ---- chain runtime (context.go) ----
    handlers,      \* context.handlers: the merged handler list of the request
    action,        \* context.action: the trailing action handler, or NilHandler
    index,         \* context.index
    stack,         \* the goroutine's call stack: run() frames and handler frames
    written,       \* ResponseWriter().Written()
    cancelled,     \* <-Request().Context().Done() is ready
    panicked,      \* run() panicked (the invocation of a handler failed)
    log,           \* observed events, in order
    \* ---- route tree (internal/route) ----
    tree,          \* the arena of tree nodes and leaves; node 1 is the root
    nadds,         \* number of AddRoute calls made so far
    lastAdd,       \* the outcome of the last AddRoute call
    lastMatch,     \* the outcome of the last Match call
    lastURL,       \* the outcome of the last Leaf.URLPath call
    \* ---- router (router.go) ----
    routeTrees,    \* router.routeTrees: method -> tree
    staticRoutes,  \* router.staticRoutes: method -> (path -> leaf)
    routes,        \* the *Route values handed out by addRoute
    nregs,         \* number of routes registered so far
    routerPanic,   \* the message of the panic that ended the setup, or ""
    lastServe,     \* the outcome of the last ServeHTTP call
    \* ---- response writer (response_writer.go) ----
    wMethod,       \* responseWriter.method
    wStatus,       \* responseWriter.status, read and written atomically
    wSize,         \* responseWriter.size
    wBefore,       \* responseWriter.beforeFuncs
    wOnce,         \* responseWriter.writeHeaderOnce: idle, running (held by a goroutine) or done
    wUnder,        \* the calls received by the wrapped http.ResponseWriter, in order
    wProc,         \* per goroutine: where it stands in its call on the wrapper
    wHookLog,      \* the before-write hooks run so far, in order
    wAtFirst,      \* history: beforeFuncs when the first header write began
    wCalls,        \* number of calls made on the wrapper so far
    wObs,          \* the last value Status() returned, with what had happened by then
    \* ---- application (flame.go) ----
    heap,          \* the backing arrays of the handler slices; an address is an index
    owner,         \* per array: the request that allocated it, 0 for the setup
    fHandlers,     \* Flame.handlers, a slice
    fBefores,      \* Flame.befores: what each before-hook returns
    routeHandlers, \* the handler slice captured by the route's closure
    notFoundHandlers, \* the handler slice captured by the not-found closure
    reqs,          \* per request: where its ServeHTTP stands, its merged slice
    fWrites,       \* the writes to backing arrays made while serving
    fLog,          \* the before-hooks and chains run, in order
    \* ---- injector (inject/inject.go) ----
    injValues,     \* per injector: injector.values, a map from type to value
    injParent,     \* per injector: injector.parent, 0 for nil
    nmaps,         \* number of values mapped so far
    fnCalls,       \* the calls of invoked functions: the argument lists, in order
    lastValue,     \* the outcome of the last Value call
    lastInvoke,    \* the outcome of the last Invoke call
    \* ---- route parser (internal/route/parser.go) ----
    routeText,     \* the route string handed to Parser.Parse
    parsed         \* the outcome of the last Parse call

chainVars  == <<handlers, action, index, stack, written, cancelled, panicked, log>>
treeVars   == <<tree, nadds, lastAdd, lastMatch, lastURL>>
routerVars == <<routeTrees, staticRoutes, routes, nregs, routerPanic, lastServe>>
writerVars == <<wMethod, wStatus, wSize, wBefore, wOnce, wUnder, wProc, wHookLog,
                wAtFirst, wCalls, wObs>>
flameVars  == <<heap, owner, fHandlers, fBefores, routeHandlers, notFoundHandlers,
                reqs, fWrites, fLog>>
injectVars == <<injValues, injParent, nmaps, fnCalls, lastValue, lastInvoke>>
parserVars == <<routeText, parsed>>
restVars   == <<writerVars, flameVars, injectVars, parserVars>>
vars       == <<chainVars, treeVars, routerVars, restVars>>

(***************************************************************************)
(* Bounds                                                                  *)
(***************************************************************************)
MaxHandlers == 3     \* longest handler list of a request
MaxAdds     == 3     \* AddRoute calls on one tree
MaxRegs     == 2     \* routes registered on one router
MaxURLRoutes == 2    \* routes in a tree that paths are rendered from
MaxWriterCalls == 4  \* calls made on one response writer
MaxHooks    == 2     \* before-write hooks registered on one response writer
MaxUse      == 3     \* middleware handlers added with Use
MaxBefores  == 2     \* before-hooks registered on the application
MaxMaps     == 3     \* values mapped into the injectors
MaxParams   == 2     \* parameters of an invoked function

(***************************************************************************)
(* Generic helpers on sequences                                            *)
(***************************************************************************)
Range(s) == {s[i] : i \in 1..Len(s)}

RECURSIVE Concat(_)
Concat(ss) == IF ss = <<>> THEN <<>> ELSE Head(ss) \o Concat(Tail(ss))

Last(s) == s[Len(s)]

(***************************************************************************)
(* Go strings as sequences of one-character strings                        *)
(***************************************************************************)
\* s[a:b] and s[a:], 0-based as in Go
GoSlice(s, a, b) == SubSeq(s, a + 1, b)
GoFrom(s, a) == SubSeq(s, a + 1, Len(s))

\* strings.Index(s, c) for a one-character c: 0-based, -1 when absent
IndexOf(s, c) ==
    IF \E i \in 1..Len(s) : s[i] = c
      THEN (CHOOSE i \in 1..Len(s) : s[i] = c /\ \A j \in 1..(i - 1) : s[j] # c) - 1
      ELSE -1

\* strings.Count(s, c) for a one-character c
Count(s, c) == Cardinality({i \in 1..Len(s) : s[i] = c})

\* strings.TrimLeft(s, cutset)
RECURSIVE TrimLeft(_, _)
TrimLeft(s, cutset) ==
    IF s # <<>> /\ Head(s) \in cutset THEN TrimLeft(Tail(s), cutset) ELSE s

\* strconv.Atoi on a string of decimal digits (0 and an error otherwise; the
\* caller drops the error)
DigitValue(c) ==
    CASE c = "0" -> 0 [] c = "1" -> 1 [] c = "2" -> 2 [] c = "3" -> 3 [] c = "4" -> 4
      [] c = "5" -> 5 [] c = "6" -> 6 [] c = "7" -> 7 [] c = "8" -> 8 [] c = "9" -> 9
      [] OTHER -> -1
RECURSIVE AtoiFrom(_, _)
AtoiFrom(s, acc) ==
    IF s = <<>> THEN acc ELSE AtoiFrom(Tail(s), acc * 10 + DigitValue(Head(s)))
Atoi(s) ==
    IF s = <<>> \/ \E i \in 1..Len(s) : DigitValue(s[i]) < 0 THEN 0 ELSE AtoiFrom(s, 0)

(***************************************************************************)
(* Route AST (internal/route/definition.go)                                *)
(***************************************************************************)
\* BindParameter: Ident ':' Value, the value a literal or a /regex/
BindParameter(ident, kind, value) == [Ident |-> ident, kind |-> kind, value |-> value]

\* SegmentElement: exactly one of Ident, BindIdent, BindParameters is set
ElemIdent(lit)    == [kind |-> "Ident", text |-> lit, Parameters |-> <<>>]
ElemBindIdent(b)  == [kind |-> "BindIdent", text |-> b, Parameters |-> <<>>]
ElemBindParams(ps) == [kind |-> "BindParameters", text |-> <<>>, Parameters |-> ps]

Segment(optional, elements) == [nil |-> FALSE, Optional |-> optional, Elements |-> elements]
\* the root tree's segment: a nil *Segment
NilSegment == [nil |-> TRUE, Optional |-> FALSE, Elements |-> <<>>]

Route(segments) == [Segments |-> segments]

\* one bind parameter as Segment.String() prints it: ident ": " value
ParameterString(prm) ==
    prm.Ident \o <<":", " ">> \o
        (IF prm.kind = "Literal" THEN prm.value ELSE <<"/">> \o prm.value \o <<"/">>)

RECURSIVE ParametersString(_)
ParametersString(ps) ==
    IF ps = <<>> THEN <<>>
    ELSE ParameterString(Head(ps)) \o
         (IF Len(ps) > 1 THEN <<",", " ">> ELSE <<>>) \o ParametersString(Tail(ps))

ElementString(e) ==
    CASE e.kind = "Ident" -> e.text
      [] e.kind = "BindIdent" -> <<"{">> \o e.text \o <<"}">>
      [] OTHER -> IF e.Parameters = <<>> THEN <<"?", "?", "?">>
                  ELSE <<"{">> \o ParametersString(e.Parameters) \o <<"}">>

\* Segment.String()
SegmentString(seg) ==
    <<"/">> \o (IF seg.Optional THEN <<"?">> ELSE <<>>) \o
        Concat([i \in 1..Len(seg.Elements) |-> ElementString(seg.Elements[i])])

\* Route.String()
RouteString(r) == Concat([i \in 1..Len(r.Segments) |-> SegmentString(r.Segments[i])])

(***************************************************************************)
(* Match styles and segment classification (leaf.go)                       *)
(***************************************************************************)
matchStyleNone        == 0
matchStyleStatic      == 1
matchStyleRegex       == 2
matchStylePlaceholder == 3
matchStyleAll         == 4

StarStar == <<"*", "*">>

isMatchStyleStatic(seg) ==
    Len(seg.Elements) = 1 /\ seg.Elements[1].kind = "Ident"

\* checkMatchStylePlaceholder: [bind, ok]
checkMatchStylePlaceholder(seg) ==
    IF /\ Len(seg.Elements) = 1
       /\ seg.Elements[1].kind = "BindIdent"
       /\ seg.Elements[1].text # StarStar
      THEN [bind |-> seg.Elements[1].text, ok |-> TRUE]
      ELSE [bind |-> <<>>, ok |-> FALSE]

\* checkMatchStyleAll: [bind, capture, ok]
checkMatchStyleAll(seg) ==
    IF /\ Len(seg.Elements) = 1
       /\ seg.Elements[1].kind = "BindIdent"
       /\ seg.Elements[1].text = StarStar
      THEN [bind |-> StarStar, capture |-> 0, ok |-> TRUE]
    ELSE IF \/ Len(seg.Elements) = 0
            \/ seg.Elements[1].kind # "BindParameters"
            \/ Len(seg.Elements[1].Parameters) = 0
            \/ seg.Elements[1].Parameters[1].kind # "Literal"
            \/ seg.Elements[1].Parameters[1].value # StarStar
      THEN [bind |-> <<>>, capture |-> 0, ok |-> FALSE]
    ELSE LET ps == seg.Elements[1].Parameters IN
         [bind |-> ps[1].Ident,
          capture |-> IF /\ Len(ps) > 1
                         /\ ps[2].Ident = <<"c", "a", "p", "t", "u", "r", "e">>
                         /\ ps[2].kind = "Literal"
                        THEN Atoi(ps[2].value) ELSE 0,
          ok |-> TRUE]

(***************************************************************************)
(* Regular expressions.  A compiled expression is a sequence of pieces: a  *)
(* literal character, or a capture group (class)+ over a character class.  *)
(***************************************************************************)
Digits  == {"0", "1", "2", "3", "4", "5", "6", "7", "8", "9"}
Letters == {"a", "b", "c", "d", "e", "f"}

PieceLit(c)     == [group |-> FALSE, lit |-> c, class |-> "lit"]
PieceGroup(cls) == [group |-> TRUE, lit |-> "", class |-> cls]

\* the regex sources routes are written with, and `.+` of a bare {ident}
InClass(c, cls) ==
    CASE cls = "[0-9]+"    -> c \in Digits
      [] cls = "[a-z0-9]+" -> c \in Digits \cup Letters
      [] cls = ".+"        -> TRUE
      [] OTHER             -> FALSE

\* the pieces and the binds of one element, as constructMatchStyleRegex
\* appends them; err when a bind parameter has no regex value
ElementRegex(e) ==
    CASE e.kind = "Ident" ->
           [pieces |-> [i \in 1..Len(e.text) |-> PieceLit(e.text[i])],
            binds |-> <<>>, err |-> FALSE]
      [] e.kind = "BindIdent" ->
           [pieces |-> <<PieceGroup(".+")>>, binds |-> <<e.text>>, err |-> FALSE]
      [] OTHER ->
           IF e.Parameters = <<>>
             THEN [pieces |-> <<>>, binds |-> <<>>, err |-> TRUE]
           ELSE IF \E i \in 1..Len(e.Parameters) : e.Parameters[i].kind # "Regex"
             THEN [pieces |-> <<>>, binds |-> <<>>, err |-> TRUE]
           ELSE [pieces |-> [i \in 1..Len(e.Parameters) |->
                                PieceGroup(e.Parameters[i].value[1])],
                 binds |-> [i \in 1..Len(e.Parameters) |-> e.Parameters[i].Ident],
                 err |-> FALSE]

\* constructMatchStyleRegex: [regexp, binds, err]
constructMatchStyleRegex(seg) ==
    LET parts == [i \in 1..Len(seg.Elements) |-> ElementRegex(seg.Elements[i])] IN
    IF \E i \in 1..Len(parts) : parts[i].err
      THEN [regexp |-> <<>>, binds |-> <<>>, err |-> TRUE]
      ELSE [regexp |-> Concat([i \in 1..Len(parts) |-> parts[i].pieces]),
            binds  |-> Concat([i \in 1..Len(parts) |-> parts[i].binds]),
            err    |-> FALSE]

\* the longest prefix of s made of characters of the class
RECURSIVE ClassRun(_, _)
ClassRun(s, cls) ==
    IF s # <<>> /\ InClass(Head(s), cls) THEN 1 + ClassRun(Tail(s), cls) ELSE 0

\* whether the pieces match the whole of s (the pattern is anchored ^...$)
RECURSIVE PiecesMatch(_, _)
PiecesMatch(pieces, s) ==
    IF pieces = <<>> THEN s = <<>>
    ELSE IF ~Head(pieces).group
      THEN s # <<>> /\ Head(s) = Head(pieces).lit /\ PiecesMatch(Tail(pieces), Tail(s))
    ELSE \E n \in 1..ClassRun(s, Head(pieces).class) :
            PiecesMatch(Tail(pieces), GoFrom(s, n))

\* the captures of the groups: each group is greedy, the leftmost first
RECURSIVE PiecesCaptures(_, _)
PiecesCaptures(pieces, s) ==
    IF pieces = <<>> THEN <<>>
    ELSE IF ~Head(pieces).group THEN PiecesCaptures(Tail(pieces), Tail(s))
    ELSE LET fits == {n \in 1..ClassRun(s, Head(pieces).class) :
                         PiecesMatch(Tail(pieces), GoFrom(s, n))}
             n == CHOOSE m \in fits : \A k \in fits : k <= m
         IN <<GoSlice(s, 0, n)>> \o PiecesCaptures(Tail(pieces), GoFrom(s, n))

\* regexp.FindStringSubmatch: the whole match followed by the captures, or
\* the empty list when there is no match
FindStringSubmatch(re, s) ==
    IF PiecesMatch(re, s) THEN <<s>> \o PiecesCaptures(re, s) ELSE <<>>

(***************************************************************************)
(* The route tree (internal/route/tree.go, leaf.go).  The tree is an arena *)
(* `nodes`: a sequence of trees and leaves, a reference being an index     *)
(* (0 = nil); node 1 is the root.  Nodes are appended when they are        *)
(* attached, so a larger index was registered later.                       *)
(***************************************************************************)
NoHeaderMatcher == [nil |-> TRUE, matches |-> <<>>]
HeaderMatcher(matches) == [nil |-> FALSE, matches |-> matches]

NoRoute == Route(<<>>)

TreeNode(parent, seg, style, binds, capture, re) ==
    [kind |-> "tree", parent |-> parent, segment |-> seg, style |-> style,
     subtrees |-> <<>>, leaves |-> <<>>, binds |-> binds, capture |-> capture,
     regexp |-> re, literals |-> <<>>, route |-> NoRoute, handler |-> 0,
     headerMatcher |-> NoHeaderMatcher]

LeafNode(parent, r, seg, h, style, binds, capture, re, literals) ==
    [kind |-> "leaf", parent |-> parent, segment |-> seg, style |-> style,
     subtrees |-> <<>>, leaves |-> <<>>, binds |-> binds, capture |-> capture,
     regexp |-> re, literals |-> literals, route |-> r, handler |-> h,
     headerMatcher |-> NoHeaderMatcher]

\* NewTree(): &baseTree{}
NewTree == <<TreeNode(0, NilSegment, matchStyleNone, <<>>, 0, <<>>)>>
Root == 1

\* the chain t, t.parent, ... up to the root
RECURSIVE Ancestors(_, _)
Ancestors(nodes, t) == IF t = 0 THEN <<>> ELSE <<t>> \o Ancestors(nodes, nodes[t].parent)

\* getParentBindSet: every bind of the parent and of its ancestors
getParentBindSet(nodes, parent) ==
    UNION {Range(nodes[a].binds) : a \in Range(Ancestors(nodes, parent))}

\* hasMatchAllSubtree / hasMatchAllLeaf: the last child is match-all
hasMatchAllSubtree(nodes, t) ==
    /\ Len(nodes[t].subtrees) > 0
    /\ nodes[Last(nodes[t].subtrees)].style = matchStyleAll

hasMatchAllLeaf(nodes, t) ==
    /\ Len(nodes[t].leaves) > 0
    /\ nodes[Last(nodes[t].leaves)].style = matchStyleAll

NoNode == TreeNode(0, NilSegment, matchStyleNone, <<>>, 0, <<>>)
Failed(msg) == [node |-> NoNode, err |-> msg]
Made(node)  == [node |-> node, err |-> ""]

\* whether a bind about to be declared already exists among the ancestors
DuplicatedBindIgnored(binds, bindSet) == FALSE
DuplicatedBind(binds, bindSet) == \E i \in 1..Len(binds) : binds[i] \in bindSet

\* newLeaf: [node, err]
newLeaf(nodes, parent, r, seg, h) ==
    IF Len(seg.Elements) = 0 \/ isMatchStyleStatic(seg)
      THEN Made(LeafNode(parent, r, seg, h, matchStyleStatic, <<>>, 0, <<>>,
                         TrimLeft(SegmentString(seg), {"/", "?"})))
    ELSE LET parentBindSet == getParentBindSet(nodes, parent)
             ph  == checkMatchStylePlaceholder(seg)
             all == checkMatchStyleAll(seg)
             re  == constructMatchStyleRegex(seg)
         IN
         IF ph.ok THEN
            IF DuplicatedBind(<<ph.bind>>, parentBindSet)
              THEN Failed("duplicated bind parameter")
              ELSE Made(LeafNode(parent, r, seg, h, matchStylePlaceholder,
                                 <<ph.bind>>, 0, <<>>, <<>>))
         ELSE IF all.ok THEN
            IF DuplicatedBind(<<all.bind>>, parentBindSet)
              THEN Failed("duplicated bind parameter")
              ELSE Made(LeafNode(parent, r, seg, h, matchStyleAll,
                                 <<all.bind>>, all.capture, <<>>, <<>>))
         ELSE IF re.err THEN Failed("segment has non-regex literal")
         ELSE IF DuplicatedBind(re.binds, parentBindSet)
              THEN Failed("duplicated bind parameter")
         ELSE Made(LeafNode(parent, r, seg, h, matchStyleRegex,
                            re.binds, 0, re.regexp, <<>>))

\* newTree: [node, err]
newTree(nodes, parent, seg) ==
    IF Len(seg.Elements) = 0 THEN Failed("empty segment")
    ELSE IF isMatchStyleStatic(seg)
      THEN Made(TreeNode(parent, seg, matchStyleStatic, <<>>, 0, <<>>))
    ELSE LET parentBindSet == getParentBindSet(nodes, parent)
             ph  == checkMatchStylePlaceholder(seg)
             all == checkMatchStyleAll(seg)
             re  == constructMatchStyleRegex(seg)
         IN
         IF ph.ok THEN
            IF DuplicatedBind(<<ph.bind>>, parentBindSet)
              THEN Failed("duplicated bind parameter")
              ELSE Made(TreeNode(parent, seg, matchStylePlaceholder, <<ph.bind>>, 0, <<>>))
         ELSE IF all.ok THEN
            IF DuplicatedBind(<<all.bind>>, parentBindSet)
              THEN Failed("duplicated bind parameter")
            ELSE IF \E a \in Range(Ancestors(nodes, parent)) :
                       nodes[a].style = matchStyleAll
              THEN Failed("duplicated match all style")
            ELSE Made(TreeNode(parent, seg, matchStyleAll, <<all.bind>>, all.capture, <<>>))
         ELSE IF re.err THEN Failed("segment has non-regex literal")
         ELSE IF DuplicatedBind(re.binds, parentBindSet)
              THEN Failed("duplicated bind parameter")
         ELSE Made(TreeNode(parent, seg, matchStyleRegex, re.binds, 0, re.regexp))

\* "Determine ... position by the priority of match styles": the first index
\* (0-based) whose child has a higher style than the new one, or the length
InsertPositionFront(nodes, children, style) == 0
InsertPosition(nodes, children, style) ==
    IF \E i \in 1..Len(children) : style < nodes[children[i]].style
      THEN (CHOOSE i \in 1..Len(children) :
                /\ style < nodes[children[i]].style
                /\ \A j \in 1..(i - 1) : ~(style < nodes[children[j]].style)) - 1
      ELSE Len(children)

\* append(children[:i], append([]T{x}, children[i:]...)...)
InsertAt(children, i, x) ==
    GoSlice(children, 0, i) \o <<x>> \o GoFrom(children, i)

\* "At most one match all style ... can exist in a ... list"
RejectSecondMatchAllNever(style, hasMatchAll) == FALSE
RejectSecondMatchAll(style, hasMatchAll) == style = matchStyleAll /\ hasMatchAll

\* the outcome of addLeaf / addSubtree / addNextSegment / AddRoute:
\* the arena after the call, the leaf returned (0 = nil) and the error
\* ("" = nil; "panic" = the call panicked)
Outcome(nodes, leaf, err) == [nodes |-> nodes, leaf |-> leaf, err |-> err]

\* a comparison that finds no two segments alike
SameSegmentNever(a, b) == FALSE

\* `l.getSegment().String() == s.String()`
SameSegment(a, b) == SegmentString(a) = SegmentString(b)

RECURSIVE addLeaf(_, _, _, _, _)
addLeaf(nodes, t, r, seg, h) ==
    \* a nil *Segment (the root's) is dereferenced by s.String() in the loop,
    \* or else by len(s.Elements) in newLeaf
    IF seg.nil THEN Outcome(nodes, 0, "panic")
    ELSE
    LET leaves == nodes[t].leaves IN
    IF \E i \in 1..Len(leaves) : SameSegment(nodes[leaves[i]].segment, seg)
      THEN Outcome(nodes, 0, "duplicated route")
    ELSE
    LET made == newLeaf(nodes, t, r, seg, h) IN
    IF made.err # "" THEN Outcome(nodes, 0, made.err)
    ELSE IF RejectSecondMatchAll(made.node.style, hasMatchAllLeaf(nodes, t))
      THEN Outcome(nodes, 0, "duplicated match all bind parameter")
    ELSE
    LET parent == made.node.parent
        opt == IF ~made.node.segment.Optional THEN Outcome(nodes, 0, "")
               ELSE IF nodes[parent].parent # 0
                 THEN addLeaf(nodes, nodes[parent].parent, r, nodes[parent].segment, h)
                 ELSE addLeaf(nodes, parent, r, nodes[parent].segment, h)
    IN
    IF opt.err # "" THEN Outcome(opt.nodes, 0, opt.err)
    ELSE
    LET i  == InsertPosition(opt.nodes, leaves, made.node.style)
        id == Len(opt.nodes) + 1
    IN Outcome(Append([opt.nodes EXCEPT ![t].leaves = InsertAt(leaves, i, id)], made.node),
               id, "")

RECURSIVE addSubtree(_, _, _, _, _)
RECURSIVE addNextSegment(_, _, _, _, _)

\* `next` is 0-based as in the source
addSubtree(nodes, t, r, next, h) ==
    LET segment  == r.Segments[next + 1]
        subtrees == nodes[t].subtrees
        same == {i \in 1..Len(subtrees) :
                    SegmentString(nodes[subtrees[i]].segment) = SegmentString(segment)}
    IN
    IF same # {}
      THEN addNextSegment(nodes, subtrees[CHOOSE i \in same : \A j \in same : i <= j],
                          r, next + 1, h)
    ELSE
    LET made == newTree(nodes, t, segment) IN
    IF made.err # "" THEN Outcome(nodes, 0, made.err)
    ELSE IF RejectSecondMatchAll(made.node.style, hasMatchAllSubtree(nodes, t))
      THEN Outcome(nodes, 0, "duplicated match all bind parameter")
    ELSE
    LET i  == InsertPosition(nodes, subtrees, made.node.style)
        id == Len(nodes) + 1
        attached == Append([nodes EXCEPT ![t].subtrees = InsertAt(subtrees, i, id)],
                           made.node)
    IN addNextSegment(attached, id, r, next + 1, h)

addNextSegment(nodes, t, r, next, h) ==
    IF Len(r.Segments) <= next + 1
      THEN addLeaf(nodes, t, r, r.Segments[next + 1], h)
    ELSE IF r.Segments[next + 1].Optional
      THEN Outcome(nodes, 0, "only the last segment can be optional")
    ELSE addSubtree(nodes, t, r, next, h)

\* AddRoute(t, r, h) on the root
AddRoute(nodes, r, h) ==
    IF Len(r.Segments) = 0 THEN Outcome(nodes, 0, "cannot add empty route")
    ELSE addNextSegment(nodes, Root, r, 0, h)

(***************************************************************************)
(* Matching (tree.go, leaf.go, header_matcher.go).  Params is the Go map   *)
(* that every step writes into: a write made on a branch that is later     *)
(* abandoned stays in the map.                                             *)
(***************************************************************************)
NoParams == <<>>
Put(params, k, v) ==
    [x \in (DOMAIN params) \cup {k} |-> IF x = k THEN v ELSE params[x]]

\* params[binds[i]] = submatches[i+1] for every bind, in order
RECURSIVE PutAll(_, _, _)
PutAll(params, binds, values) ==
    IF binds = <<>> THEN params
    ELSE PutAll(Put(params, Head(binds), Head(values)), Tail(binds), Tail(values))

\* http.Header.Get: "" when the header is absent
HeaderGet(header, name) == IF name \in DOMAIN header THEN header[name] ELSE ""

\* regexp.MatchString for the header expressions in use: the empty
\* expression matches every value, a word matches the values containing it
ReMatchString(re, v) == re = "" \/ re = v

\* HeaderMatcher.Match: every configured header is present and matches
HeaderMatch(m, header) ==
    \A name \in DOMAIN m.matches :
        /\ HeaderGet(header, name) # ""
        /\ ReMatchString(m.matches[name], HeaderGet(header, name))

\* baseLeaf.matchHeader
matchHeader(leaf, header) == leaf.headerMatcher.nil \/ HeaderMatch(leaf.headerMatcher, header)

Matched(leaf, params) == [leaf |-> leaf, ok |-> TRUE, params |-> params]
NoMatch(params) == [leaf |-> 0, ok |-> FALSE, params |-> params]

\* Leaf.match for the four leaf kinds: [ok, params]
leafMatch(l, segment, params, header) ==
    CASE l.style = matchStyleStatic ->
           [ok |-> l.literals = segment /\ matchHeader(l, header), params |-> params]
      [] l.style = matchStyleRegex ->
           LET submatches == FindStringSubmatch(l.regexp, segment) IN
           IF Len(submatches) < Len(l.binds) + 1 THEN [ok |-> FALSE, params |-> params]
           ELSE IF ~matchHeader(l, header) THEN [ok |-> FALSE, params |-> params]
           ELSE [ok |-> TRUE, params |-> PutAll(params, l.binds, Tail(submatches))]
      [] OTHER ->   \* placeholderLeaf.match and matchAllLeaf.match
           IF ~matchHeader(l, header) THEN [ok |-> FALSE, params |-> params]
           ELSE [ok |-> TRUE, params |-> Put(params, l.binds[1], segment)]

\* `l.capture > 0 && l.capture < strings.Count(path[next-1:], "/")+1`
ExceedsCaptureNever(capture, remainder) == FALSE
ExceedsCapture(capture, remainder) ==
    capture > 0 /\ capture < Count(remainder, "/") + 1

\* matchAllLeaf.matchAll: [ok, params]
leafMatchAll(l, path, segment, next, params, header) ==
    IF ExceedsCapture(l.capture, GoFrom(path, next - 1))
      THEN [ok |-> FALSE, params |-> params]
    ELSE IF ~matchHeader(l, header) THEN [ok |-> FALSE, params |-> params]
    ELSE [ok |-> TRUE,
          params |-> Put(params, l.binds[1], segment \o <<"/">> \o GoFrom(path, next))]

\* Tree.match for static, regex and placeholder trees: [ok, params]
treeMatch(t, segment, params) ==
    CASE t.style = matchStyleStatic ->
           [ok |-> GoFrom(SegmentString(t.segment), 1) = segment, params |-> params]
      [] t.style = matchStyleRegex ->
           LET submatches == FindStringSubmatch(t.regexp, segment) IN
           IF Len(submatches) # Len(t.binds) + 1 THEN [ok |-> FALSE, params |-> params]
           ELSE [ok |-> TRUE, params |-> PutAll(params, t.binds, Tail(submatches))]
      [] OTHER ->
           [ok |-> TRUE, params |-> Put(params, t.binds[1], segment)]

\* the leaves in list order up to the k-th, the last match wins
RECURSIVE matchLeafLastFrom(_, _, _, _, _, _)
matchLeafLastFrom(nodes, t, k, segment, params, header) ==
    IF k < 1 THEN [leaf |-> 0, ok |-> FALSE, params |-> params]
    ELSE LET l == nodes[t].leaves[k]
             m == leafMatch(nodes[l], segment, params, header)
         IN IF m.ok THEN [leaf |-> l, ok |-> TRUE, params |-> m.params]
            ELSE matchLeafLastFrom(nodes, t, k - 1, segment, m.params, header)

matchLeafLast(nodes, t, segment, params, header) ==
    matchLeafLastFrom(nodes, t, Len(nodes[t].leaves), segment, params, header)

\* baseTree.matchLeaf: the leaves in list order from the k-th, first match wins
RECURSIVE matchLeafFrom(_, _, _, _, _, _)
matchLeafFrom(nodes, t, k, segment, params, header) ==
    IF k > Len(nodes[t].leaves) THEN NoMatch(params)
    ELSE LET l == nodes[t].leaves[k]
             m == leafMatch(nodes[l], segment, params, header)
         IN IF m.ok THEN Matched(l, m.params)
            ELSE matchLeafFrom(nodes, t, k + 1, segment, m.params, header)

matchLeaf(nodes, t, segment, params, header) ==
    matchLeafFrom(nodes, t, 1, segment, params, header)

RECURSIVE matchNextSegment(_, _, _, _, _, _)
RECURSIVE matchSubtreeFrom(_, _, _, _, _, _, _, _)
RECURSIVE treeMatchAll(_, _, _, _, _, _, _, _)

\* a tree that never falls back to its match-all leaf
matchAllLeafFallbackNone(nodes, t, path, segment, next, params, header) == NoMatch(params)

\* "Fall back to match all leaf of the tree"
matchAllLeafFallback(nodes, t, path, segment, next, params, header) ==
    IF Len(nodes[t].leaves) > 0
      THEN LET leaf == Last(nodes[t].leaves) IN
           IF nodes[leaf].style # matchStyleAll THEN NoMatch(params)
           ELSE LET m == leafMatchAll(nodes[leaf], path, segment, next, params, header)
                IN IF m.ok THEN Matched(leaf, m.params) ELSE NoMatch(m.params)
      ELSE NoMatch(params)

\* baseTree.matchSubtree: the loop over t.subtrees from the k-th
matchSubtreeFrom(nodes, t, k, path, segment, next, params, header) ==
    IF k > Len(nodes[t].subtrees)
      THEN matchAllLeafFallback(nodes, t, path, segment, next, params, header)
    ELSE
    LET st == nodes[t].subtrees[k] IN
    IF nodes[st].style = matchStyleAll
      THEN LET r == treeMatchAll(nodes, st, path, segment, next, params, header, 1) IN
           IF r.ok THEN r
           ELSE matchAllLeafFallback(nodes, t, path, segment, next, r.params, header)
    ELSE
    LET m == treeMatch(nodes[st], segment, params) IN
    IF ~m.ok THEN matchSubtreeFrom(nodes, t, k + 1, path, segment, next, m.params, header)
    ELSE LET r == matchNextSegment(nodes, st, path, next, m.params, header) IN
         IF r.ok THEN r
         ELSE matchSubtreeFrom(nodes, t, k + 1, path, segment, next, r.params, header)

\* matchAllTree.matchAll: the loop, `captured` segments held in `segment`
treeMatchAll(nodes, t, path, segment, next, params, header, captured) ==
    IF ~(nodes[t].capture <= 0 \/ nodes[t].capture >= captured) THEN NoMatch(params)
    ELSE
    LET r == matchNextSegment(nodes, t, path, next, params, header) IN
    IF r.ok THEN Matched(r.leaf, Put(r.params, nodes[t].binds[1], segment))
    ELSE LET i == IndexOf(GoFrom(path, next), "/") IN
         IF i = -1 THEN NoMatch(r.params)
         ELSE treeMatchAll(nodes, t, path,
                           segment \o <<"/">> \o GoSlice(path, next, next + i),
                           next + i + 1, r.params, header, captured + 1)

\* baseTree.matchNextSegment
matchNextSegment(nodes, t, path, next, params, header) ==
    LET i == IndexOf(GoFrom(path, next), "/") IN
    IF i = -1 THEN matchLeaf(nodes, t, GoFrom(path, next), params, header)
    ELSE matchSubtreeFrom(nodes, t, 1, path, GoSlice(path, next, next + i),
                          next + i + 1, params, header)

(***************************************************************************)
(* url.PathUnescape on the characters in use                               *)
(***************************************************************************)
HexChars == Digits \cup {"a", "b", "c", "d", "e", "f", "A", "B", "C", "D", "E", "F"}

\* the character a %XY escape stands for
UnescapeByte(x, y) ==
    CASE x = "2" /\ y \in {"F", "f"} -> "/"
      [] x = "6" /\ y = "1" -> "a"
      [] x = "6" /\ y = "2" -> "b"
      [] x = "3" /\ y = "1" -> "1"
      [] x = "2" /\ y = "5" -> "%"
      [] OTHER -> "%" \o x \o y

\* whether every "%" is followed by two hex digits
RECURSIVE ValidEscapes(_)
ValidEscapes(s) ==
    IF s = <<>> THEN TRUE
    ELSE IF Head(s) = "%"
      THEN /\ Len(s) >= 3 /\ s[2] \in HexChars /\ s[3] \in HexChars
           /\ ValidEscapes(GoFrom(s, 3))
    ELSE ValidEscapes(Tail(s))

RECURSIVE Unescaped(_)
Unescaped(s) ==
    IF s = <<>> THEN <<>>
    ELSE IF Head(s) = "%" THEN <<UnescapeByte(s[2], s[3])>> \o Unescaped(GoFrom(s, 3))
    ELSE <<Head(s)>> \o Unescaped(Tail(s))

\* `unescaped, err := url.PathUnescape(v); if err == nil { params[k] = unescaped }`
PathUnescapeOrKeep(v) == IF ValidEscapes(v) THEN Unescaped(v) ELSE v

\* baseTree.Match: [leaf, params, ok]; (nil, nil, false) when nothing matches
TreeMatch(nodes, path, header) ==
    LET trimmed == TrimLeft(path, {"/"})
        r == matchNextSegment(nodes, Root, trimmed, 0, NoParams, header)
    IN IF ~r.ok THEN NoMatch(NoParams)
       ELSE Matched(r.leaf, [k \in DOMAIN r.params |-> PathUnescapeOrKeep(r.params[k])])

(***************************************************************************)
(* The routes and request paths the tree is exercised with                 *)
(***************************************************************************)
Lit(c)       == Segment(FALSE, <<ElemIdent(<<c>>)>>)
OptLit(c)    == Segment(TRUE, <<ElemIdent(<<c>>)>>)
Hold(b)      == Segment(FALSE, <<ElemBindIdent(<<b>>)>>)
Rex(b, re)   == Segment(FALSE, <<ElemBindParams(<<BindParameter(<<b>>, "Regex", <<re>>)>>)>>)
All(b)       == Segment(FALSE, <<ElemBindParams(<<BindParameter(<<b>>, "Literal", StarStar)>>)>>)
AllCap(b, n) == Segment(FALSE, <<ElemBindParams(<<
                    BindParameter(<<b>>, "Literal", StarStar),
                    BindParameter(<<"c", "a", "p", "t", "u", "r", "e">>, "Literal", <<n>>)>>)>>)
Dashed(b, c) == Segment(FALSE, <<ElemBindIdent(<<b>>), ElemIdent(<<"-">>), ElemBindIdent(<<c>>)>>)

RouteTable ==
    << Route(<<Lit("a")>>),                              \* /a
       Route(<<Lit("a"), Lit("b")>>),                    \* /a/b
       Route(<<Lit("a"), OptLit("b")>>),                 \* /a/?b
       Route(<<Hold("x")>>),                             \* /{x}
       Route(<<Rex("x", "[0-9]+")>>),                    \* /{x: /[0-9]+/}
       Route(<<Rex("y", "[a-z0-9]+")>>),                 \* /{y: /[a-z0-9]+/}
       Route(<<All("x")>>),                              \* /{x: **}
       Route(<<AllCap("y", "2")>>),                      \* /{y: **, capture: 2}
       Route(<<Hold("x"), Lit("b")>>),                   \* /{x}/b
       Route(<<AllCap("x", "2"), Lit("b")>>),            \* /{x: **, capture: 2}/b
       Route(<<All("y"), Lit("b")>>),                    \* /{y: **}/b
       Route(<<Hold("x"), Hold("x")>>),                  \* /{x}/{x}
       Route(<<Dashed("x", "x")>>),                      \* /{x}-{x}
       Route(<<Lit("a"), AllCap("x", "2")>>),            \* /a/{x: **, capture: 2}
       Route(<<OptLit("a")>>),                           \* /?a
       Route(<<Rex("x", "[0-9]+"), Lit("b")>>),          \* /{x: /[0-9]+/}/b
       Route(<<Rex("y", "[a-z0-9]+"), Lit("b")>>),       \* /{y: /[a-z0-9]+/}/b
       Route(<<Hold("x"), OptLit("b")>>),                \* /{x}/?b
       Route(<<OptLit("a"), Lit("b")>>),                 \* /?a/b
       Route(<<Lit("a"), AllCap("x", "0")>>) >>          \* /a/{x: **, capture: 0}

Routes == Range(RouteTable)

\* a request path from its segments: "/" before each segment
RECURSIVE PathOf(_)
PathOf(segs) == IF segs = <<>> THEN <<>> ELSE <<"/">> \o Head(segs) \o PathOf(Tail(segs))

PathSegments == {<<"a">>, <<"b">>, <<"1">>}
MaxPathSegments == 3

Paths ==
    {PathOf(segs) : segs \in UNION {[1..n -> PathSegments] : n \in 1..MaxPathSegments}}
    \cup { PathOf(<<<<"a">>, <<"1">>, <<"1">>, <<"1">>>>),     \* /a/1/1/1
           PathOf(<<<<"1">>, <<"1">>, <<"1">>, <<"b">>>>),     \* /1/1/1/b
           PathOf(<<<<"1", "-", "2">>>>),                      \* /1-2
           PathOf(<<<<"a">>, <<>>>>),                          \* /a/
           <<"/">> \o PathOf(<<<<"a">>, <<"b">>>>) }           \* //a/b

NoHeader == <<>>

(***************************************************************************)
(* The tree in use: AddRoute and Match calls on one tree                   *)
(***************************************************************************)
NoAdd == [called |-> FALSE, route |-> NoRoute, leaf |-> 0, err |-> ""]
NoURLPath == [called |-> FALSE, leaf |-> 0, vals |-> <<>>, withOptional |-> FALSE,
              path |-> <<>>]
NoMatchCall == [called |-> FALSE, path |-> <<>>, leaf |-> 0, ok |-> FALSE, params |-> NoParams]

\* AddRoute(tree, r, h) with a handler of its own; a call that panics unwinds
\* with whatever it had already attached
AddRouteCall(r) ==
    /\ nadds < MaxAdds
    /\ LET out == AddRoute(tree, r, nadds + 1) IN
         /\ tree' = out.nodes
         /\ lastAdd' = [called |-> TRUE, route |-> r, leaf |-> out.leaf, err |-> out.err]
    /\ nadds' = nadds + 1
    /\ lastMatch' = NoMatchCall
    /\ lastURL' = NoURLPath
    /\ UNCHANGED <<chainVars, routerVars, restVars>>

\* tree.Match(path, header).  Match does not change the tree, so one recorded
\* call per tree state reaches every (tree, outcome) pair.
MatchCall(path) ==
    /\ ~lastMatch.called
    /\ LET m == TreeMatch(tree, path, NoHeader) IN
         lastMatch' = [called |-> TRUE, path |-> path, leaf |-> m.leaf, ok |-> m.ok,
                       params |-> m.params]
    /\ UNCHANGED <<tree, nadds, lastAdd, lastURL>>
    /\ UNCHANGED <<chainVars, routerVars, restVars>>

InitTreeVars ==
    /\ tree = NewTree
    /\ nadds = 0
    /\ lastAdd = NoAdd
    /\ lastMatch = NoMatchCall
    /\ lastURL = NoURLPath

NextTree ==
    \/ \E r \in Routes : AddRouteCall(r)
    \/ \E path \in Paths : MatchCall(path)

(***************************************************************************)
(* Leaf.URLPath: the route rendered as a path with the binds filled in     *)
(***************************************************************************)
\* "{" + name + "}"
Braced(name) == <<"{">> \o name \o <<"}">>

\* a renderer that names the last bind parameter of an element
ElementTemplateLast(e) ==
    CASE e.kind = "Ident" -> e.text
      [] e.kind = "BindIdent" -> Braced(e.text)
      [] OTHER -> IF e.Parameters = <<>> THEN <<"?", "?", "?">>
                  ELSE Braced(e.Parameters[Len(e.Parameters)].Ident)

\* one element as URLPath writes it into the buffer
ElementTemplate(e) ==
    CASE e.kind = "Ident" -> e.text
      [] e.kind = "BindIdent" -> Braced(e.text)
      [] OTHER -> IF e.Parameters = <<>> THEN <<"?", "?", "?">>
                  ELSE Braced(e.Parameters[1].Ident)

SegmentTemplate(seg) ==
    <<"/">> \o Concat([i \in 1..Len(seg.Elements) |-> ElementTemplate(seg.Elements[i])])

\* the loop over l.route.Segments, which stops at an optional segment unless
\* withOptional
RECURSIVE RouteTemplate(_, _)
RouteTemplate(segs, withOptional) ==
    IF segs = <<>> THEN <<>>
    ELSE IF Head(segs).Optional /\ ~withOptional THEN <<>>
    ELSE SegmentTemplate(Head(segs)) \o RouteTemplate(Tail(segs), withOptional)

HasPrefix(s, prefix) == Len(prefix) <= Len(s) /\ GoSlice(s, 0, Len(prefix)) = prefix

\* strings.NewReplacer("{k}", v, ...).Replace(s): left to right, without
\* rescanning what was put in
RECURSIVE Replace(_, _)
Replace(s, vals) ==
    IF s = <<>> THEN <<>>
    ELSE LET hits == {k \in DOMAIN vals : HasPrefix(s, Braced(k))} IN
         IF hits # {}
           THEN LET k == CHOOSE k \in hits : TRUE IN
                vals[k] \o Replace(GoFrom(s, Len(Braced(k))), vals)
           ELSE <<Head(s)>> \o Replace(Tail(s), vals)

\* baseLeaf.URLPath(vals, withOptional)
URLPath(l, vals, withOptional) ==
    Replace(RouteTemplate(l.route.Segments, withOptional), vals)

\* leaf.URLPath(vals, withOptional) on a leaf of the tree
URLPathCall(l, vals, withOptional) ==
    /\ ~lastURL.called
    /\ ~lastMatch.called
    /\ l \in 1..Len(tree)
    /\ tree[l].kind = "leaf"
    /\ lastURL' = [called |-> TRUE, leaf |-> l, vals |-> vals,
                   withOptional |-> withOptional,
                   path |-> URLPath(tree[l], vals, withOptional)]
    /\ UNCHANGED <<tree, nadds, lastAdd, lastMatch>>
    /\ UNCHANGED <<chainVars, routerVars, restVars>>

\* the routes, bind names and values the renderer is exercised with
URLRoutes ==
    { Route(<<Lit("a")>>),                              \* /a
      Route(<<Hold("x")>>),                             \* /{x}
      Route(<<Lit("a"), Hold("x")>>),                   \* /a/{x}
      Route(<<Hold("x"), OptLit("b")>>),                \* /{x}/?b
      Route(<<Lit("a"), OptLit("b")>>),                 \* /a/?b
      Route(<<Rex("x", "[0-9]+")>>),                    \* /{x: /[0-9]+/}
      Route(<<Dashed("x", "y")>>),                      \* /{x}-{y}
      Route(<<Hold("x"), All("y")>>),                   \* /{x}/{y: **}
      Route(<<AllCap("x", "2"), Lit("b")>>) }           \* /{x: **, capture: 2}/b

URLNames  == {<<"x">>, <<"y">>}
URLValues == {<<"1">>, <<"a">>, <<"%", "3", "1">>, <<"1", "/", "1">>, <<"1", "-", "1">>, <<>>}
URLVals   == UNION {[names -> URLValues] : names \in SUBSET URLNames}

\* a tree of up to MaxURLRoutes routes, rendered from and matched against
NextURL ==
    \/ \E r \in URLRoutes : nadds < MaxURLRoutes /\ AddRouteCall(r)
    \/ \E l \in 1..(2 * MaxURLRoutes + 2), vals \in URLVals, withOptional \in BOOLEAN :
          URLPathCall(l, vals, withOptional)
    \/ lastURL.called /\ MatchCall(lastURL.path)

(***************************************************************************)
(* Router: registration, header matchers and dispatch (router.go)          *)
(***************************************************************************)
\* the methods the router keeps a tree and a fast map for (two of the nine)
httpMethods == <<"GET", "POST">>

\* a Go map as a function; delete(m, k)
MapDeleteNot(m, k) == m
MapDelete(m, k) == [x \in (DOMAIN m) \ {k} |-> m[x]]

\* staticLeaf.Static (every other leaf kind: false)
Static(nodes, l) ==
    /\ nodes[l].kind = "leaf"
    /\ nodes[l].style = matchStyleStatic
    /\ \A a \in Range(Ancestors(nodes, nodes[l].parent)) : nodes[a].style <= matchStyleStatic

\* baseLeaf.Route
LeafRoute(nodes, l) == RouteString(nodes[l].route)

\* newRouter: a tree and an empty fast map per method
NewRouteTrees   == [m \in Range(httpMethods) |-> NewTree]
NewStaticRoutes == [m \in Range(httpMethods) |-> <<>>]

\* addRoute: the methods a registration applies to; <<>> when unknown
MethodsOf(method) ==
    IF method = "*" THEN httpMethods
    ELSE IF method \in Range(httpMethods) THEN <<method>>
    ELSE <<>>

\* addRoute: `route.AddRoute(r.routeTrees[m], ast, handler)` for the method at
\* each position of ms
AddRouteOutcomes(ms, trees, r, h) == [k \in 1..Len(ms) |-> AddRoute(trees[ms[k]], r, h)]

\* addRoute: the loop over the methods, each on its own tree and fast map,
\* given the outcome outs[k] of AddRoute for the k-th method.  A failed
\* AddRoute panics, leaving what the earlier iterations and the failed call
\* itself have stored.
addRouteLoop(ms, outs, trees, static) ==
    LET failing == {k \in 1..Len(ms) : outs[k].err # ""}
        failed == IF failing = {} THEN 0 ELSE CHOOSE k \in failing : \A j \in failing : k <= j
        reached == {k \in 1..Len(ms) : failed = 0 \/ k <= failed}
        done == {k \in reached : k # failed}
        at(m) == CHOOSE k \in 1..Len(ms) : ms[k] = m
    IN [trees |-> [m \in DOMAIN trees |->
                      IF \E k \in reached : ms[k] = m THEN outs[at(m)].nodes ELSE trees[m]],
        static |-> [m \in DOMAIN static |->
                      IF (\E k \in done : ms[k] = m) /\ Static(outs[at(m)].nodes, outs[at(m)].leaf)
                        THEN Put(static[m], LeafRoute(outs[at(m)].nodes, outs[at(m)].leaf),
                                 outs[at(m)].leaf)
                        ELSE static[m]],
        leaves |-> [m \in {ms[k] : k \in done} |-> outs[at(m)].leaf],
        err |-> IF failed = 0 THEN "" ELSE outs[failed].err]

NoServe == [called |-> FALSE, method |-> "", path |-> <<>>, header |-> <<>>,
            via |-> "", leaf |-> 0, handler |-> 0, params |-> NoParams]

\* router.Route / addRoute(method, routePath, handler)
RouteCall(method, r) ==
    /\ routerPanic = ""
    /\ nregs < MaxRegs
    /\ nregs' = nregs + 1
    /\ lastServe' = NoServe
    /\ IF MethodsOf(method) = <<>>
         THEN /\ routerPanic' = "unknown HTTP method"
              /\ UNCHANGED <<routeTrees, staticRoutes, routes>>
         ELSE \E outs \in {AddRouteOutcomes(MethodsOf(method), routeTrees, r, nregs + 1)} :
              \E res \in {addRouteLoop(MethodsOf(method), outs, routeTrees, staticRoutes)} :
                 /\ routeTrees' = res.trees
                 /\ staticRoutes' = res.static
                 /\ IF res.err # ""
                      THEN routerPanic' = "unable to add route" /\ routes' = routes
                      ELSE routerPanic' = "" /\ routes' = Append(routes, res.leaves)
    /\ UNCHANGED <<chainVars, treeVars, restVars>>

\* the matches map built from the key-value pairs
MatchesOf(pairs) ==
    [name \in {pairs[i - 1] : i \in {j \in 2..Len(pairs) : j % 2 = 0}} |->
        pairs[CHOOSE i \in {j \in 2..Len(pairs) : j % 2 = 0} :
                 /\ pairs[i - 1] = name
                 /\ \A k \in {j \in 2..Len(pairs) : j % 2 = 0} :
                       pairs[k - 1] = name => k <= i]]

\* (*Route).Headers(pairs...) on the i-th route handed out
HeadersCall(i, pairs) ==
    /\ routerPanic = ""
    /\ i \in 1..Len(routes)
    /\ lastServe' = NoServe
    /\ IF Len(pairs) % 2 # 0
         THEN /\ routerPanic' = "imbalanced pairs"
              /\ UNCHANGED <<routeTrees, staticRoutes>>
         ELSE /\ routerPanic' = ""
              /\ routeTrees' =
                   [m \in DOMAIN routeTrees |->
                      IF m \in DOMAIN routes[i]
                        THEN [routeTrees[m] EXCEPT
                                ![routes[i][m]].headerMatcher = HeaderMatcher(MatchesOf(pairs))]
                        ELSE routeTrees[m]]
              /\ staticRoutes' =
                   [m \in DOMAIN staticRoutes |->
                      IF m \in DOMAIN routes[i] /\ Static(routeTrees[m], routes[i][m])
                        THEN MapDelete(staticRoutes[m], LeafRoute(routeTrees[m], routes[i][m]))
                        ELSE staticRoutes[m]]
    /\ UNCHANGED <<routes, nregs>>
    /\ UNCHANGED <<chainVars, treeVars, restVars>>

RouteKey == <<"r", "o", "u", "t", "e">>

\* `leaf, ok := r.staticRoutes[req.Method][req.URL.Path]`: the leaf, or 0
StaticLookup(static, method, path) ==
    IF method \in DOMAIN static /\ path \in DOMAIN static[method]
      THEN static[method][path] ELSE 0

\* what ServeHTTP did: the branch taken, the leaf whose handler it called
\* (0 for notFound) and the params handed to the handler
Served(method, path, header, via, nodes, leaf, params) ==
    [called |-> TRUE, method |-> method, path |-> path, header |-> header,
     via |-> via, leaf |-> leaf,
     handler |-> IF leaf = 0 THEN 0 ELSE nodes[leaf].handler,
     params |-> params]

\* router.ServeHTTP, up to the call of the leaf's handler (or of notFound)
ServeOutcome(method, path, header) ==
    LET fast == StaticLookup(staticRoutes, method, path) IN
    IF fast # 0
      THEN Served(method, path, header, "static", routeTrees[method], fast,
                  Put(NoParams, RouteKey, LeafRoute(routeTrees[method], fast)))
    ELSE IF method \notin DOMAIN routeTrees
      THEN Served(method, path, header, "notFound", <<>>, 0, NoParams)
    ELSE LET m == TreeMatch(routeTrees[method], path, header) IN
         IF ~m.ok THEN Served(method, path, header, "notFound", <<>>, 0, NoParams)
         ELSE Served(method, path, header, "tree", routeTrees[method], m.leaf,
                     Put(m.params, RouteKey, LeafRoute(routeTrees[method], m.leaf)))

ServeHTTP(method, path, header) ==
    /\ routerPanic = ""
    /\ ~lastServe.called
    /\ lastServe' = ServeOutcome(method, path, header)
    /\ UNCHANGED <<routeTrees, staticRoutes, routes, nregs, routerPanic>>
    /\ UNCHANGED <<chainVars, treeVars, restVars>>

\* the registrations and requests the router is exercised with
RegisterMethods == {"GET", "POST", "*", "BREW"}
RequestMethods  == {"GET", "POST", "BREW"}

RouterRoutes ==
    { Route(<<Lit("a")>>),                  \* /a
      Route(<<Lit("a"), Lit("b")>>),        \* /a/b
      Route(<<Lit("a"), OptLit("b")>>),     \* /a/?b
      Route(<<Hold("x")>>),                 \* /{x}
      Route(<<Hold("x"), Lit("b")>>),       \* /{x}/b
      Route(<<OptLit("a")>>) }              \* /?a

RequestPaths ==
    { PathOf(<<<<"a">>>>),                  \* /a
      PathOf(<<<<"a">>, <<"b">>>>),         \* /a/b
      PathOf(<<<<"a">>, <<"?", "b">>>>),    \* /a/?b  (requested as /a/%3Fb)
      PathOf(<<<<"1">>>>),                  \* /1
      PathOf(<<<<"1">>, <<"b">>>>),         \* /1/b
      <<"/">> \o PathOf(<<<<"a">>>>) }      \* //a

AcceptJSON == [name \in {"Accept"} |-> "json"]
RequestHeaders == {NoHeader, AcceptJSON}
HeaderPairs == {<<>>, <<"Accept", "json">>, <<"Accept">>}

InitRouterVars ==
    /\ routeTrees = NewRouteTrees
    /\ staticRoutes = NewStaticRoutes
    /\ routes = <<>>
    /\ nregs = 0
    /\ routerPanic = ""
    /\ lastServe = NoServe

NextRouter ==
    \/ \E method \in RegisterMethods, r \in RouterRoutes : RouteCall(method, r)
    \/ \E i \in 1..MaxRegs, pairs \in HeaderPairs : HeadersCall(i, pairs)
    \/ \E method \in RequestMethods, path \in RequestPaths, header \in RequestHeaders :
          ServeHTTP(method, path, header)

(***************************************************************************)
(* Chain runtime: context.Next and context.run (context.go)                *)
(*                                                                         *)
(* A handler is modelled by what it does to the context: the calls it      *)
(* makes in order ("Next" = c.Next(), "Write" = a write to the response),  *)
(* whether it returns a value (which the ReturnHandler writes to the      *)
(* response) and whether one of its parameters has no value in the         *)
(* injector (Invoke fails).                                                *)
(***************************************************************************)
Handler(body, ret, missing) == [body |-> body, ret |-> ret, missing |-> missing]
NilHandler == [nil |-> TRUE]     \* a nil Handler (no action was set)

Behaviours ==
    { Handler(<<>>, FALSE, FALSE),                 \* func() {}
      Handler(<<"Next">>, FALSE, FALSE),           \* func(c) { pre; c.Next(); post }
      Handler(<<"Write">>, FALSE, FALSE),          \* func(w) { w.Write(...) }
      Handler(<<"Write", "Next">>, FALSE, FALSE),  \* func(c) { w.Write(...); c.Next() }
      Handler(<<"Next", "Next">>, FALSE, FALSE),   \* func(c) { c.Next(); c.Next() }
      Handler(<<>>, TRUE, FALSE),                  \* func() string { return "..." }
      Handler(<<>>, FALSE, TRUE) }                 \* func(x T) with no T mapped

HandlerLists == UNION {[1..n -> Behaviours] : n \in 0..MaxHandlers}

Frame(kind, idx, pos) == [kind |-> kind, idx |-> idx, pos |-> pos]
\* an observed event, with Written() at the time it was observed
Event(ev, idx) == [ev |-> ev, idx |-> idx, w |-> written]

Top == stack[Len(stack)]
Pop(st) == SubSeq(st, 1, Len(st) - 1)

\* context.run: h is the action when index = len(handlers), else handlers[index]
SelectHandler(i) == IF i = Len(handlers) THEN action ELSE handlers[i + 1]

\* context.Next: c.index++
IndexAfterNextSkip(i) == i + 2
IndexAfterNextSame(i) == i
IndexAfterNext(i) == i + 1

\* context.run: `if c.ResponseWriter().Written() { return }` after an invocation
StopAfterInvokeNever(w) == FALSE
StopAfterInvoke(w) == w

\* A run() frame returns.  When it was entered from a handler's c.Next(), that
\* handler resumes with the code after Next().
ReturnFromRun ==
    /\ stack' = Pop(stack)
    /\ log' = IF Len(stack) > 1
                THEN Append(log, Event("post", stack[Len(stack) - 1].idx))
                ELSE log

\* a select that never finds the Done channel ready
DoneNever(c) == FALSE

\* `select { case <-c.Request().Context().Done(): return; default: }`
Done(c) == c

InRunLoop == stack # <<>> /\ Top.kind = "run" /\ Top.pos = "loop"

\* `for c.index <= len(c.handlers)` is false
RunExit ==
    /\ InRunLoop
    /\ index > Len(handlers)
    /\ ReturnFromRun
    /\ UNCHANGED <<handlers, action, index, written, cancelled, panicked>>
    /\ UNCHANGED <<treeVars, routerVars, restVars>>

\* `case <-c.Request().Context().Done(): return`
RunCancelled ==
    /\ InRunLoop
    /\ index <= Len(handlers)
    /\ Done(cancelled)
    /\ ReturnFromRun
    /\ UNCHANGED <<handlers, action, index, written, cancelled, panicked>>
    /\ UNCHANGED <<treeVars, routerVars, restVars>>

\* `if h == nil { c.index++; return }`
RunNilHandler ==
    /\ InRunLoop
    /\ index <= Len(handlers)
    /\ ~Done(cancelled)
    /\ SelectHandler(index) = NilHandler
    /\ index' = index + 1
    /\ ReturnFromRun
    /\ UNCHANGED <<handlers, action, written, cancelled, panicked>>
    /\ UNCHANGED <<treeVars, routerVars, restVars>>

\* `vals, err := c.Invoke(h); if err != nil { panic(...) }`
\* strconv.Itoa
DigitChar(d) == <<"0", "1", "2", "3", "4", "5", "6", "7", "8", "9">>[d + 1]
RECURSIVE ItoaNat(_)
ItoaNat(n) == IF n < 10 THEN <<DigitChar(n)>> ELSE ItoaNat(n \div 10) \o <<DigitChar(n % 10)>>
Itoa(n) == IF n < 0 THEN <<"-">> \o ItoaNat(-n) ELSE ItoaNat(n)

\* ordinalize(number): the number followed by its ordinal suffix
ordinalize(number) ==
    LET abs == IF number < 0 THEN -number ELSE number
        nstr == Itoa(number)
        i == abs % 100
    IN IF i \in {11, 12, 13} THEN nstr \o <<"t", "h">>
       ELSE CASE abs % 10 = 1 -> nstr \o <<"s", "t">>
              [] abs % 10 = 2 -> nstr \o <<"n", "d">>
              [] abs % 10 = 3 -> nstr \o <<"r", "d">>
              [] OTHER -> nstr \o <<"t", "h">>

\* `fmt.Sprintf("unable to invoke the %s handler [%T]: %v", ordinalize(c.index), h, err)`
PanicMessage(i, h) == [ordinal |-> ordinalize(i), handler |-> h]

RunInvokePanic ==
    /\ InRunLoop
    /\ index <= Len(handlers)
    /\ ~Done(cancelled)
    /\ SelectHandler(index) # NilHandler
    /\ SelectHandler(index).missing
    /\ panicked' = TRUE
    /\ stack' = <<>>
    /\ log' = Append(log, [ev |-> "panic", idx |-> index, w |-> written,
                            msg |-> PanicMessage(index, SelectHandler(index))])
    /\ UNCHANGED <<handlers, action, index, written, cancelled>>
    /\ UNCHANGED <<treeVars, routerVars, restVars>>

\* `vals, err := c.Invoke(h)`: the handler starts running
RunInvoke ==
    /\ InRunLoop
    /\ index <= Len(handlers)
    /\ ~Done(cancelled)
    /\ SelectHandler(index) # NilHandler
    /\ ~SelectHandler(index).missing
    /\ stack' = Append(Append(Pop(stack), Frame("run", index, "invoked")),
                       Frame("h", index, 1))
    /\ log' = Append(log, Event("enter", index))
    /\ UNCHANGED <<handlers, action, index, written, cancelled, panicked>>
    /\ UNCHANGED <<treeVars, routerVars, restVars>>

InHandler == stack # <<>> /\ Top.kind = "h"
HandlerBody == SelectHandler(Top.idx).body

\* the running handler calls c.Next(): `c.index++; c.run()`
HandlerNext ==
    /\ InHandler
    /\ Top.pos <= Len(HandlerBody)
    /\ HandlerBody[Top.pos] = "Next"
    /\ index' = IndexAfterNext(index)
    /\ stack' = Append(Append(Pop(stack), Frame("h", Top.idx, Top.pos + 1)),
                       Frame("run", Top.idx, "loop"))
    /\ log' = Append(log, Event("next", Top.idx))
    /\ UNCHANGED <<handlers, action, written, cancelled, panicked>>
    /\ UNCHANGED <<treeVars, routerVars, restVars>>

\* the running handler writes to the response
HandlerWrite ==
    /\ InHandler
    /\ Top.pos <= Len(HandlerBody)
    /\ HandlerBody[Top.pos] = "Write"
    /\ written' = TRUE
    /\ stack' = Append(Pop(stack), Frame("h", Top.idx, Top.pos + 1))
    /\ UNCHANGED <<handlers, action, index, cancelled, panicked, log>>
    /\ UNCHANGED <<treeVars, routerVars, restVars>>

\* the running handler returns to run()
HandlerReturn ==
    /\ InHandler
    /\ Top.pos > Len(HandlerBody)
    /\ stack' = Pop(stack)
    /\ log' = Append(log, Event("exit", Top.idx))
    /\ UNCHANGED <<handlers, action, index, written, cancelled, panicked>>
    /\ UNCHANGED <<treeVars, routerVars, restVars>>

\* run() after the invocation: `c.index++`, the ReturnHandler writes the
\* returned values, `if c.ResponseWriter().Written() { return }`
RunAfterInvoke ==
    /\ stack # <<>> /\ Top.kind = "run" /\ Top.pos = "invoked"
    /\ index' = index + 1
    /\ written' = (written \/ SelectHandler(Top.idx).ret)
    /\ IF StopAfterInvoke(written')
         THEN ReturnFromRun
         ELSE /\ stack' = Append(Pop(stack), Frame("run", Top.idx, "loop"))
              /\ log' = log
    /\ UNCHANGED <<handlers, action, cancelled, panicked>>
    /\ UNCHANGED <<treeVars, routerVars, restVars>>

\* the request's context is cancelled (by the client, a timeout, a handler)
Cancel ==
    /\ stack # <<>>
    /\ ~cancelled
    /\ cancelled' = TRUE
    /\ UNCHANGED <<handlers, action, index, stack, written, panicked, log>>
    /\ UNCHANGED <<treeVars, routerVars, restVars>>

ChainIdle ==
    /\ handlers = <<>> /\ action = NilHandler /\ index = 0 /\ stack = <<>>
    /\ written = FALSE /\ cancelled = FALSE /\ panicked = FALSE /\ log = <<>>

\* createContext(...).run(): a fresh context about to enter run()
InitChainVars ==
    /\ handlers \in HandlerLists
    /\ action \in Behaviours \cup {NilHandler}
    /\ index = 0
    /\ stack = <<Frame("run", 0, "loop")>>
    /\ written = FALSE
    /\ cancelled = FALSE
    /\ panicked = FALSE
    /\ log = <<>>

NextChain ==
    \/ RunExit
    \/ RunCancelled
    \/ RunNilHandler
    \/ RunInvokePanic
    \/ RunInvoke
    \/ HandlerNext
    \/ HandlerWrite
    \/ HandlerReturn
    \/ RunAfterInvoke
    \/ Cancel

(***************************************************************************)
(* The ResponseWriter wrapper (response_writer.go), used by Goroutines     *)
(* concurrently.  A step is one access to shared state: an atomic load or  *)
(* store of status, entering or leaving writeHeaderOnce, one before-write  *)
(* hook, one call of the wrapped writer.                                   *)
(***************************************************************************)
Goroutines == {1, 2}

\* net/http accepts only three-digit codes; http.StatusOK is 200
StatusOK == 200
StatusCodes == {StatusOK, 404}

OnceIdle == [state |-> "idle", owner |-> 0]
OnceRunning(g) == [state |-> "running", owner |-> g]
OnceDone == [state |-> "done", owner |-> 0]

\* a goroutine between calls, and inside one: at is the statement it is about
\* to execute, code the argument of WriteHeader, i the loop index of
\* callBefore, ret what follows the return of WriteHeader
ProcIdle == [at |-> "idle", code |-> 0, i |-> 0, ret |-> "idle"]
Proc(at, code, i, ret) == [at |-> at, code |-> code, i |-> i, ret |-> ret]

\* a before-write hook: it sets headers, or it writes to the wrapper itself
HookKinds == {"header", "write"}
Hook(id, kind) == [id |-> id, kind |-> kind]

UnderWriteHeader(s) == [call |-> "WriteHeader", code |-> s]
UnderWrite == [call |-> "Write", code |-> 0]
UnderFlush == [call |-> "Flush", code |-> 0]

\* the codes the wrapped writer's WriteHeader was called with
HeaderCodes(under) ==
    LET calls == SelectSeq(under, LAMBDA e : e.call = "WriteHeader") IN
    [k \in 1..Len(calls) |-> calls[k].code]

NoObs == [called |-> FALSE, value |-> 0, under |-> <<>>, returned |-> FALSE]

\* responseWriter.Status and Written
Status(status) == status
Written(status) == Status(status) # 0

\* where a goroutine continues when WriteHeader returns
Return(p) == Proc(p.ret, 0, 0, "idle")

WriterUnchanged ==
    UNCHANGED <<chainVars, treeVars, routerVars, flameVars, injectVars, parserVars>>

\* w.WriteHeader(s): the goroutine arrives at writeHeaderOnce.Do
WriteHeaderCall(g, s) ==
    /\ wProc[g].at = "idle"
    /\ wCalls < MaxWriterCalls
    /\ wProc' = [wProc EXCEPT ![g] = Proc("Do", s, 0, "idle")]
    /\ wCalls' = wCalls + 1
    /\ UNCHANGED <<wMethod, wStatus, wSize, wBefore, wOnce, wUnder, wHookLog, wAtFirst, wObs>>
    /\ WriterUnchanged

\* w.Write(b): `if !w.Written() { w.WriteHeader(http.StatusOK) }`
WriteCall(g) ==
    /\ wProc[g].at = "idle"
    /\ wCalls < MaxWriterCalls
    /\ wProc' = [wProc EXCEPT ![g] =
                    IF ~Written(wStatus) THEN Proc("Do", StatusOK, 0, "body")
                    ELSE Proc("body", 0, 0, "idle")]
    /\ wCalls' = wCalls + 1
    /\ UNCHANGED <<wMethod, wStatus, wSize, wBefore, wOnce, wUnder, wHookLog, wAtFirst, wObs>>
    /\ WriterUnchanged

\* w.Flush(): `if !w.Written() { w.WriteHeader(http.StatusOK) }`
FlushCall(g) ==
    /\ wProc[g].at = "idle"
    /\ wCalls < MaxWriterCalls
    /\ wProc' = [wProc EXCEPT ![g] =
                    IF ~Written(wStatus) THEN Proc("Do", StatusOK, 0, "flush")
                    ELSE Proc("flush", 0, 0, "idle")]
    /\ wCalls' = wCalls + 1
    /\ UNCHANGED <<wMethod, wStatus, wSize, wBefore, wOnce, wUnder, wHookLog, wAtFirst, wObs>>
    /\ WriterUnchanged

\* sync.Once.Do: return at once when done, run f when idle, and wait while
\* another call of Do is running f (a call from inside f waits forever)
OnceDo(g) ==
    /\ wProc[g].at = "Do"
    /\ wOnce.state # "running"
    /\ IF wOnce.state = "done"
         THEN /\ wProc' = [wProc EXCEPT ![g] = Return(wProc[g])]
              /\ UNCHANGED <<wOnce, wAtFirst>>
         ELSE /\ wOnce' = OnceRunning(g)
              /\ wAtFirst' = wBefore
              /\ wProc' = [wProc EXCEPT ![g].at = "f"]
    /\ UNCHANGED <<wMethod, wStatus, wSize, wBefore, wUnder, wHookLog, wCalls, wObs>>
    /\ WriterUnchanged

\* the function given to Do: `if w.Written() { return }`, else callBefore
WriteHeaderOnce(g) ==
    /\ wProc[g].at = "f"
    /\ IF Written(wStatus)
         THEN /\ wOnce' = OnceDone
              /\ wProc' = [wProc EXCEPT ![g] = Return(wProc[g])]
         ELSE /\ wProc' = [wProc EXCEPT ![g].at = "callBefore", ![g].i = Len(wBefore)]
              /\ UNCHANGED wOnce
    /\ UNCHANGED <<wMethod, wStatus, wSize, wBefore, wUnder, wHookLog, wAtFirst, wCalls, wObs>>
    /\ WriterUnchanged

\* a loop that walks the hooks from the first one registered
callBeforeForward(before, i) == Len(before) - i + 1

\* `for i := len(w.beforeFuncs) - 1; i >= 0; i--`: the hook run at the
\* (1-based) loop position i
callBeforeIndex(before, i) == i

\* callBefore: one iteration runs one hook; a hook that writes to the wrapper
\* arrives at writeHeaderOnce.Do while this goroutine is inside it
callBefore(g) ==
    /\ wProc[g].at = "callBefore"
    /\ IF wProc[g].i = 0
         THEN /\ wProc' = [wProc EXCEPT ![g].at = "WriteHeader"]
              /\ UNCHANGED wHookLog
         ELSE LET h == wBefore[callBeforeIndex(wBefore, wProc[g].i)] IN
              /\ wHookLog' = Append(wHookLog, h.id)
              /\ wProc' = [wProc EXCEPT ![g] =
                              IF h.kind = "write"
                                THEN Proc("Do", StatusOK, 0, "hook")
                                ELSE Proc("callBefore", wProc[g].code, wProc[g].i - 1,
                                          wProc[g].ret)]
    /\ UNCHANGED <<wMethod, wStatus, wSize, wBefore, wOnce, wUnder, wAtFirst, wCalls, wObs>>
    /\ WriterUnchanged

\* `w.ResponseWriter.WriteHeader(s)`
UnderlyingWriteHeader(g) ==
    /\ wProc[g].at = "WriteHeader"
    /\ wUnder' = Append(wUnder, UnderWriteHeader(wProc[g].code))
    /\ wProc' = [wProc EXCEPT ![g].at = "StoreInt32"]
    /\ UNCHANGED <<wMethod, wStatus, wSize, wBefore, wOnce, wHookLog, wAtFirst, wCalls, wObs>>
    /\ WriterUnchanged

\* a store that keeps the status unset
StoreNothing(status, s) == status

\* `atomic.StoreInt32(&w.status, int32(s))`
StoreInt32(status, s) == s

\* the store of the status, after which f returns and Do marks the once done
StoreStatus(g) ==
    /\ wProc[g].at = "StoreInt32"
    /\ wStatus' = StoreInt32(wStatus, wProc[g].code)
    /\ wOnce' = OnceDone
    /\ wProc' = [wProc EXCEPT ![g] = Return(wProc[g])]
    /\ UNCHANGED <<wMethod, wSize, wBefore, wUnder, wHookLog, wAtFirst, wCalls, wObs>>
    /\ WriterUnchanged

\* the rest of Write: the body goes to the wrapped writer unless the method
\* is HEAD
WriteBody(g) ==
    /\ wProc[g].at = "body"
    /\ IF wMethod # "HEAD"
         THEN wUnder' = Append(wUnder, UnderWrite) /\ wSize' = wSize + 1
         ELSE UNCHANGED <<wUnder, wSize>>
    /\ wProc' = [wProc EXCEPT ![g] = ProcIdle]
    /\ UNCHANGED <<wMethod, wStatus, wBefore, wOnce, wHookLog, wAtFirst, wCalls, wObs>>
    /\ WriterUnchanged

\* the rest of Flush
FlushBody(g) ==
    /\ wProc[g].at = "flush"
    /\ wUnder' = Append(wUnder, UnderFlush)
    /\ wProc' = [wProc EXCEPT ![g] = ProcIdle]
    /\ UNCHANGED <<wMethod, wStatus, wSize, wBefore, wOnce, wHookLog, wAtFirst, wCalls, wObs>>
    /\ WriterUnchanged

\* w.Status(): one atomic load; the observation records what the wrapped
\* writer had received and whether the header write had returned by then
StatusCall(g) ==
    /\ wProc[g].at = "idle"
    /\ wCalls < MaxWriterCalls
    /\ wObs' = [called |-> TRUE, value |-> Status(wStatus),
                under |-> HeaderCodes(wUnder), returned |-> wOnce.state = "done"]
    /\ wCalls' = wCalls + 1
    /\ UNCHANGED <<wMethod, wStatus, wSize, wBefore, wOnce, wUnder, wProc, wHookLog, wAtFirst>>
    /\ WriterUnchanged

\* w.Before(before): the append is taken as one step
Before(g, kind) ==
    /\ wProc[g].at = "idle"
    /\ Len(wBefore) < MaxHooks
    /\ wBefore' = Append(wBefore, Hook(Len(wBefore) + 1, kind))
    /\ UNCHANGED <<wMethod, wStatus, wSize, wOnce, wUnder, wProc, wHookLog, wAtFirst,
                   wCalls, wObs>>
    /\ WriterUnchanged

\* NewResponseWriter(method, w), before any call
WriterIdle(method) ==
    /\ wMethod = method /\ wStatus = 0 /\ wSize = 0 /\ wBefore = <<>>
    /\ wOnce = OnceIdle /\ wUnder = <<>> /\ wProc = [g \in Goroutines |-> ProcIdle]
    /\ wHookLog = <<>> /\ wAtFirst = <<>> /\ wCalls = 0 /\ wObs = NoObs

InitWriterVars == \E method \in {"GET", "HEAD"} : WriterIdle(method)

NextWriter ==
    \E g \in Goroutines :
        \/ \E s \in StatusCodes : WriteHeaderCall(g, s)
        \/ WriteCall(g)
        \/ FlushCall(g)
        \/ OnceDo(g)
        \/ WriteHeaderOnce(g)
        \/ callBefore(g)
        \/ UnderlyingWriteHeader(g)
        \/ StoreStatus(g)
        \/ WriteBody(g)
        \/ FlushBody(g)
        \/ StatusCall(g)
        \/ \E kind \in HookKinds : Before(g, kind)

(***************************************************************************)
(* The application (flame.go): Use, Before, ServeHTTP and createContext.   *)
(* A Go slice is an address of a backing array with a length; its capacity *)
(* is the size of the array.  Requests are served concurrently.            *)
(***************************************************************************)
Requests == {1, 2}

NilSlice == [arr |-> 0, len |-> 0]
Slice(arr, len) == [arr |-> arr, len |-> len]
Cap(h, sl) == IF sl.arr = 0 THEN 0 ELSE Len(h[sl.arr])
Elems(h, sl) == [k \in 1..sl.len |-> h[sl.arr][k]]

\* a new array of the capacity, zeroed, holding the elements at its front
Allocated(elems, capacity) ==
    [k \in 1..capacity |-> IF k <= Len(elems) THEN elems[k] ELSE 0]

\* append(sl, elems...): in place within the capacity, else into a new array
\* of at least twice the capacity; [heap, slice, wrote (the array written)]
append(h, sl, elems) ==
    IF elems = <<>> THEN [heap |-> h, slice |-> sl, wrote |-> 0]
    ELSE IF sl.len + Len(elems) <= Cap(h, sl)
      THEN [heap |-> [h EXCEPT ![sl.arr] =
                        [k \in 1..Len(h[sl.arr]) |->
                            IF k > sl.len /\ k <= sl.len + Len(elems)
                              THEN elems[k - sl.len] ELSE h[sl.arr][k]]],
            slice |-> Slice(sl.arr, sl.len + Len(elems)),
            wrote |-> sl.arr]
    ELSE LET need == sl.len + Len(elems)
             grown == IF 2 * Cap(h, sl) > need THEN 2 * Cap(h, sl) ELSE need
         IN [heap |-> Append(h, Allocated(Elems(h, sl) \o elems, grown)),
             slice |-> Slice(Len(h) + 1, need),
             wrote |-> Len(h) + 1]

\* a merge that appends the route's handlers to the middleware slice itself
createContextHandlersInPlace(h, fh, hs) == append(h, fh, Elems(h, hs))

\* createContext: `hs := make([]Handler, 0, len(f.handlers)+len(handlers))`
\* followed by the two appends, which stay within the new array
createContextHandlers(h, fh, hs) ==
    LET made == Append(h, Allocated(<<>>, fh.len + hs.len))
        first == append(made, Slice(Len(made), 0), Elems(made, fh))
    IN IF fh.len + hs.len = 0
         THEN [heap |-> made, slice |-> Slice(Len(made), 0), wrote |-> 0]
       ELSE IF hs.len = 0 THEN first
       ELSE append(first.heap, first.slice, Elems(first.heap, hs))

NewRequest == [at |-> "new", i |-> 0, matched |-> FALSE, hs |-> NilSlice]

Serving == \E q \in Requests : reqs[q].at # "new"

FlameUnchanged ==
    UNCHANGED <<chainVars, treeVars, routerVars, writerVars, injectVars, parserVars>>

\* f.Use(h), while the application is being set up
Use(h) ==
    /\ ~Serving
    /\ fHandlers.len < MaxUse
    /\ \E out \in {append(heap, fHandlers, <<h>>)} :
          /\ heap' = out.heap
          /\ fHandlers' = out.slice
          /\ owner' = IF Len(out.heap) > Len(heap) THEN Append(owner, 0) ELSE owner
    /\ UNCHANGED <<fBefores, routeHandlers, notFoundHandlers, reqs, fWrites, fLog>>
    /\ FlameUnchanged

\* f.Before(h), while the application is being set up
FlameBefore(returns) ==
    /\ ~Serving
    /\ Len(fBefores) < MaxBefores
    /\ fBefores' = Append(fBefores, returns)
    /\ UNCHANGED <<heap, owner, fHandlers, routeHandlers, notFoundHandlers, reqs,
                   fWrites, fLog>>
    /\ FlameUnchanged

\* Flame.ServeHTTP begins for a request that does or does not match the route
ServeHTTPBegin(q, matched) ==
    /\ reqs[q].at = "new"
    /\ reqs' = [reqs EXCEPT ![q] = [at |-> "befores", i |-> 1, matched |-> matched,
                                    hs |-> NilSlice]]
    /\ UNCHANGED <<heap, owner, fHandlers, fBefores, routeHandlers, notFoundHandlers,
                   fWrites, fLog>>
    /\ FlameUnchanged

\* a loop that goes on to the next before-hook whatever the hook returned
StopsNever(returned) == FALSE

\* `if h(w, r) { return }`
Stops(returned) == returned

\* `for _, h := range f.befores`: one iteration, or the end of the loop and
\* the call of f.Router.ServeHTTP
BeforeLoop(q) ==
    /\ reqs[q].at = "befores"
    /\ IF reqs[q].i > Len(fBefores)
         THEN /\ reqs' = [reqs EXCEPT ![q].at = "router"]
              /\ UNCHANGED fLog
         ELSE /\ fLog' = Append(fLog, [req |-> q, ev |-> "before", n |-> reqs[q].i])
              /\ reqs' = [reqs EXCEPT ![q].at =
                                        IF Stops(fBefores[reqs[q].i]) THEN "done"
                                        ELSE "befores",
                                      ![q].i = reqs[q].i + 1]
    /\ UNCHANGED <<heap, owner, fHandlers, fBefores, routeHandlers, notFoundHandlers,
                   fWrites>>
    /\ FlameUnchanged

\* router.ServeHTTP up to the closure of the route or of not-found calling
\* r.contextCreator, that is Flame.createContext, with the captured handlers
createContext(q) ==
    /\ reqs[q].at = "router"
    /\ \E out \in {createContextHandlers(heap, fHandlers,
                       IF reqs[q].matched THEN routeHandlers ELSE notFoundHandlers)} :
          /\ heap' = out.heap
          /\ owner' = IF Len(out.heap) > Len(heap) THEN Append(owner, q) ELSE owner
          /\ fWrites' = IF out.wrote = 0 THEN fWrites
                        ELSE fWrites \cup {[req |-> q, arr |-> out.wrote]}
          /\ reqs' = [reqs EXCEPT ![q].at = "run", ![q].hs = out.slice]
    /\ UNCHANGED <<fHandlers, fBefores, routeHandlers, notFoundHandlers, fLog>>
    /\ FlameUnchanged

\* `.run()` on the new context: the chain reads its handler list
RunContext(q) ==
    /\ reqs[q].at = "run"
    /\ fLog' = Append(fLog, [req |-> q,
                             ev |-> IF reqs[q].matched THEN "route" ELSE "notFound",
                             n |-> 0])
    /\ reqs' = [reqs EXCEPT ![q].at = "done"]
    /\ UNCHANGED <<heap, owner, fHandlers, fBefores, routeHandlers, notFoundHandlers,
                   fWrites>>
    /\ FlameUnchanged

\* New(), then f.Get("/", h) and the default not-found handler; the
\* middleware slice starts nil, or as in TestFlame_NoRace with a spare cell
FlameIdle(spare) ==
    /\ heap = <<<<11>>, <<12>>, <<13, 14>>>>
    /\ owner = <<0, 0, 0>>
    /\ routeHandlers = Slice(1, 1)
    /\ notFoundHandlers = Slice(2, 1)
    /\ fHandlers = IF spare THEN Slice(3, 1) ELSE NilSlice
    /\ fBefores = <<>>
    /\ reqs = [q \in Requests |-> NewRequest]
    /\ fWrites = {}
    /\ fLog = <<>>

InitFlameVars == \E spare \in BOOLEAN : FlameIdle(spare)

NextFlame ==
    \/ \E h \in {21} : Use(h)
    \/ \E returns \in BOOLEAN : FlameBefore(returns)
    \/ \E q \in Requests :
          \/ \E matched \in BOOLEAN : ServeHTTPBegin(q, matched)
          \/ BeforeLoop(q)
          \/ createContext(q)
          \/ RunContext(q)

(***************************************************************************)
(* The injector (inject/inject.go).  A type is a name with a kind and a    *)
(* method set; a reflect.Value is a positive number, the zero Value (for   *)
(* which IsValid is false) is 0.                                           *)
(***************************************************************************)
Types == {"C1", "C2", "I1", "I2", "I12"}

\* reflect.Type.Kind() == reflect.Interface
IsInterface(t) == t \in {"I1", "I2", "I12"}

MethodSet(t) ==
    CASE t = "C1"  -> {"m1", "m2"}
      [] t = "C2"  -> {"m2"}
      [] t = "I1"  -> {"m1"}
      [] t = "I2"  -> {"m2"}
      [] t = "I12" -> {"m1", "m2"}

\* k.Implements(t), t an interface type
Implements(k, t) == MethodSet(t) \subseteq MethodSet(k)

Invalid == 0

\* a check that takes every Value for valid
IsValidAlways(v) == TRUE

\* reflect.Value.IsValid
IsValid(v) == v # Invalid

Injectors == {1, 2}

\* inj.values[t]: the zero Value when the key is absent
MapIndex(m, t) == IF t \in DOMAIN m THEN m[t] ELSE Invalid

\* the injectors from inj up its parent chain
RECURSIVE ParentChain(_, _)
ParentChain(parent, inj) ==
    IF inj = 0 THEN <<>> ELSE <<inj>> \o ParentChain(parent, parent[inj])

\* a lookup that never tries the implementors
RECURSIVE ValueExactOrParent(_, _, _, _)
ValueExactOrParent(values, parent, inj, t) ==
    IF IsValid(MapIndex(values[inj], t)) THEN {MapIndex(values[inj], t)}
    ELSE IF parent[inj] # 0 THEN ValueExactOrParent(values, parent, parent[inj], t)
    ELSE {Invalid}

\* injector.Value: the results it can return; the range over the map finds
\* any one of the implementing keys first
RECURSIVE Value(_, _, _, _)
Value(values, parent, inj, t) ==
    LET val == MapIndex(values[inj], t)
        found == IF IsInterface(t)
                   THEN {values[inj][k] : k \in {x \in DOMAIN values[inj] : Implements(x, t)}}
                   ELSE {}
    IN IF IsValid(val) THEN {val}
       ELSE IF found # {} THEN found
       ELSE IF parent[inj] # 0 THEN Value(values, parent, parent[inj], t)
       ELSE {Invalid}

NoValueCall == [called |-> FALSE, inj |-> 0, t |-> "", val |-> Invalid]
NoInvoke == [called |-> FALSE, inj |-> 0, fn |-> <<>>, err |-> "", in |-> <<>>,
             calls |-> 0]

InjectUnchanged ==
    UNCHANGED <<chainVars, treeVars, routerVars, writerVars, flameVars, parserVars>>

\* inj.Map(val), inj.MapTo(val, ifacePtr), inj.Set(typ, val): values[t] = val
Map(inj, t) ==
    /\ ~lastValue.called
    /\ ~lastInvoke.called
    /\ nmaps < MaxMaps
    /\ injValues' = [injValues EXCEPT ![inj] = Put(injValues[inj], t, nmaps + 1)]
    /\ nmaps' = nmaps + 1
    /\ UNCHANGED <<injParent, fnCalls, lastValue, lastInvoke>>
    /\ InjectUnchanged

\* child.SetParent(parent)
SetParent(child, parent) ==
    /\ ~lastValue.called
    /\ ~lastInvoke.called
    /\ child \notin Range(ParentChain(injParent, parent))
    /\ injParent[child] # parent
    /\ injParent' = [injParent EXCEPT ![child] = parent]
    /\ UNCHANGED <<injValues, nmaps, fnCalls, lastValue, lastInvoke>>
    /\ InjectUnchanged

\* inj.Value(t)
ValueCall(inj, t) ==
    /\ ~lastValue.called
    /\ ~lastInvoke.called
    /\ \E val \in Value(injValues, injParent, inj, t) :
          lastValue' = [called |-> TRUE, inj |-> inj, t |-> t, val |-> val]
    /\ UNCHANGED <<injValues, injParent, nmaps, fnCalls, lastInvoke>>
    /\ InjectUnchanged

\* the first parameter for which the looked-up value is not valid, or 0
FirstMissing(in) ==
    IF \E i \in 1..Len(in) : ~IsValid(in[i])
      THEN CHOOSE i \in 1..Len(in) : ~IsValid(in[i]) /\ \A j \in 1..(i - 1) : IsValid(in[j])
      ELSE 0

\* the injectors are set up (Map, SetParent) and then queried, so that a
\* query is the last call of a behaviour
\* inj.Invoke(f), f a function with the parameter types fn: callInvoke and
\* fastInvoke look the parameters up in order, return "value not found for
\* type T" at the first that is missing, and else call f with the values
Invoke(inj, fn) ==
    /\ ~lastValue.called
    /\ ~lastInvoke.called
    /\ \E in \in [1..Len(fn) -> 0..nmaps] :
          /\ \A i \in 1..Len(fn) : in[i] \in Value(injValues, injParent, inj, fn[i])
          /\ IF FirstMissing(in) # 0
               THEN /\ lastInvoke' = [called |-> TRUE, inj |-> inj, fn |-> fn,
                                      err |-> fn[FirstMissing(in)], in |-> <<>>, calls |-> 0]
                    /\ UNCHANGED fnCalls
               ELSE /\ lastInvoke' = [called |-> TRUE, inj |-> inj, fn |-> fn,
                                      err |-> "", in |-> in, calls |-> 1]
                    /\ fnCalls' = Append(fnCalls, in)
    /\ UNCHANGED <<injValues, injParent, nmaps, lastValue>>
    /\ InjectUnchanged

\* the parameter lists of the invoked functions
Functions == UNION {[1..n -> Types] : n \in 0..MaxParams}

\* New() twice, nothing mapped
InjectIdle ==
    /\ injValues = [inj \in Injectors |-> <<>>]
    /\ injParent = [inj \in Injectors |-> 0]
    /\ nmaps = 0 /\ fnCalls = <<>>
    /\ lastValue = NoValueCall /\ lastInvoke = NoInvoke

NextInject ==
    \/ \E inj \in Injectors, t \in Types : Map(inj, t)
    \/ \E child \in Injectors, parent \in Injectors \cup {0} : SetParent(child, parent)
    \/ \E inj \in Injectors, t \in Types : ValueCall(inj, t)
    \/ \E inj \in Injectors, fn \in Functions : Invoke(inj, fn)

(***************************************************************************)
(* Claims about the chain runtime                                          *)
(***************************************************************************)
LogPos == 1..Len(log)

\* the slots after slot i that hold a handler: the rest of the list, and the
\* action when one is set
SlotsAfter(i) ==
    {j \in (i + 1)..Len(handlers) : j < Len(handlers) \/ action # NilHandler}

\* C1: "around" order of the chain.  Handlers start in chain order (so the code
\* before each Next() runs in chain order); when a Next() call returns, and the
\* chain was neither stopped by a written response nor cancelled, every later
\* handler and the action have already run; and the code after a Next() runs
\* only when every inner handler started so far has finished, its own code
\* after Next() included (reverse order, the outer-most handler last).
C1_AroundOrder ==
    /\ \A p, q \in LogPos :
          (p < q /\ log[p].ev = "enter" /\ log[q].ev = "enter")
              => log[p].idx < log[q].idx
    /\ \A p, q \in LogPos :
          (p < q /\ log[p].ev = "enter" /\ log[q].ev = "post"
                 /\ log[p].idx > log[q].idx)
              => \E r \in (p + 1)..(q - 1) :
                    log[r].ev = "exit" /\ log[r].idx = log[p].idx
    /\ \A q \in LogPos :
          (log[q].ev = "post" /\ ~written /\ ~cancelled)
              => \A j \in SlotsAfter(log[q].idx) :
                    \E p \in 1..(q - 1) : log[p].ev = "exit" /\ log[p].idx = j

\* the chain [A(Next); B] with action C has run: A-pre, B, C, A-post
C1_Witness ==
    /\ handlers = <<Handler(<<"Next">>, FALSE, FALSE), Handler(<<>>, FALSE, FALSE)>>
    /\ action = Handler(<<>>, FALSE, FALSE)
    /\ stack = <<>>
    /\ [i \in LogPos |-> <<log[i].ev, log[i].idx>>] =
         << <<"enter", 0>>, <<"next", 0>>, <<"enter", 1>>, <<"exit", 1>>,
            <<"enter", 2>>, <<"exit", 2>>, <<"post", 0>>, <<"exit", 0>> >>

\* C2: once a handler has returned with the response marked written, no later
\* handler of the chain and no action is invoked.
C2_NoInvokeAfterWrittenReturn ==
    \A p, q \in LogPos :
        (p < q /\ log[p].ev = "exit" /\ log[p].w) => log[q].ev # "enter"

(***************************************************************************)
(* Claims about the route tree                                             *)
(***************************************************************************)
TreeIds == 1..Len(tree)

\* the children lists of the tree: every node's subtrees and leaves
ChildLists == {tree[t].subtrees : t \in TreeIds} \cup {tree[t].leaves : t \in TreeIds}

\* nodes enter the arena in the order they are attached, so among the children
\* of one list the smaller index was inserted earlier
InsertedBefore(a, b) == a < b

\* C3: every subtree list and every leaf list is sorted by ascending match
\* style (Static < Regex < Placeholder < All), and children of equal style
\* appear in the order they were inserted.
C3_ChildrenSorted ==
    \A cs \in ChildLists : \A i, j \in 1..Len(cs) :
        i < j => /\ tree[cs[i]].style <= tree[cs[j]].style
                 /\ tree[cs[i]].style = tree[cs[j]].style => InsertedBefore(cs[i], cs[j])

\* a leaf list [static, regex, regex] whose static child was inserted last and
\* whose regex children stand in insertion order
C3_Witness ==
    \E t \in TreeIds :
        LET cs == tree[t].leaves IN
        /\ Len(cs) = 3
        /\ [i \in 1..3 |-> tree[cs[i]].style] =
               <<matchStyleStatic, matchStyleRegex, matchStyleRegex>>
        /\ InsertedBefore(cs[2], cs[3])
        /\ InsertedBefore(cs[3], cs[1])

AllChildren(cs) == {i \in 1..Len(cs) : tree[cs[i]].style = matchStyleAll}

\* the node reached from t by following, for the segments k+1.. of r up to
\* (and without) the last one, the subtree holding the same segment; 0 when
\* there is none.  k is the number of segments already followed.
RECURSIVE Descend(_, _, _, _)
Descend(nodes, t, r, k) ==
    IF k + 1 >= Len(r.Segments) THEN t
    ELSE LET same == {c \in Range(nodes[t].subtrees) :
                         SegmentString(nodes[c].segment) = SegmentString(r.Segments[k + 1])}
         IN IF same = {} THEN 0
            ELSE Descend(nodes, CHOOSE c \in same : \A d \in same : c <= d, r, k + 1)

\* route r ends in a match-all segment at a position whose leaf list already
\* holds a match-all leaf
SecondMatchAllLeaf(nodes, r) ==
    /\ Len(r.Segments) > 0
    /\ checkMatchStyleAll(Last(r.Segments)).ok
    /\ LET t == Descend(nodes, Root, r, 0) IN
         /\ t # 0
         /\ \E c \in Range(nodes[t].leaves) : nodes[c].style = matchStyleAll

\* route r has a match-all segment before its last one, at a position whose
\* subtree list already holds another match-all subtree
SecondMatchAllSubtree(nodes, r) ==
    \E k \in 1..(Len(r.Segments) - 1) :
        /\ checkMatchStyleAll(r.Segments[k]).ok
        /\ LET t == Descend(nodes, Root, [r EXCEPT !.Segments = GoSlice(@, 0, k)], 0) IN
             /\ t # 0
             /\ \E c \in Range(nodes[t].subtrees) :
                    /\ nodes[c].style = matchStyleAll
                    /\ SegmentString(nodes[c].segment) # SegmentString(r.Segments[k])

\* C4: each subtree list and each leaf list holds at most one match-all child,
\* and an AddRoute that would add a second one at the same position returns an
\* error.
C4_AtMostOneMatchAll ==
    /\ [](\A cs \in ChildLists : Cardinality(AllChildren(cs)) <= 1)
    /\ [][(/\ lastAdd'.called
           /\ nadds' = nadds + 1
           /\ \/ SecondMatchAllLeaf(tree, lastAdd'.route)
              \/ SecondMatchAllSubtree(tree, lastAdd'.route))
          => (lastAdd'.err # "" /\ lastAdd'.leaf = 0)]_vars

\* a second match-all child was refused at a position that holds one
C4_Witness ==
    /\ lastAdd.called
    /\ lastAdd.err = "duplicated match all bind parameter"
    /\ \E cs \in ChildLists : Cardinality(AllChildren(cs)) = 1

\* every bind of every segment on the path from the root to leaf l, the
\* leaf's own segment included
RECURSIVE BindsOnPath(_, _)
BindsOnPath(nodes, l) ==
    IF l = 0 THEN <<>> ELSE BindsOnPath(nodes, nodes[l].parent) \o nodes[l].binds

NoRepeat(s) == \A i, j \in 1..Len(s) : s[i] = s[j] => i = j

\* C5: no bind-parameter name occurs more than once on any path from the tree
\* root to a leaf, the leaf's own segment included.
C5_NoRepeatedBind ==
    \A l \in TreeIds : tree[l].kind = "leaf" => NoRepeat(BindsOnPath(tree, l))

\* the request path that spells out the first n segments of a route of
\* literal segments
RECURSIVE LiteralPath(_, _)
LiteralPath(r, n) ==
    IF n = 0 THEN <<>>
    ELSE LiteralPath(r, n - 1) \o <<"/">> \o TrimLeft(SegmentString(r.Segments[n]), {"/", "?"})

AllLiteral(r) == \A i \in 1..Len(r.Segments) : isMatchStyleStatic(r.Segments[i])

OptionalAdded ==
    /\ lastAdd.called
    /\ lastAdd.err = ""
    /\ Len(lastAdd.route.Segments) > 0
    /\ Last(lastAdd.route.Segments).Optional

\* C6: after a route whose terminal segment is optional is added successfully,
\* both the path with that segment and the path without it match, and both
\* matches carry the handler and the route of that registration.
C6_OptionalBothMatch ==
    LET r == lastAdd.route
        n == Len(r.Segments)
    IN (/\ OptionalAdded
        /\ AllLiteral(r)
        /\ lastMatch.called
        /\ lastMatch.path \in {LiteralPath(r, n), LiteralPath(r, n - 1)})
       => /\ lastMatch.ok
          /\ lastMatch.leaf # 0
          /\ tree[lastMatch.leaf].handler = nadds
          /\ tree[lastMatch.leaf].route = r

(***************************************************************************)
(* Matching at one tree position: node t, with the request path consumed   *)
(* up to offset next                                                       *)
(***************************************************************************)
TrimmedPath == TrimLeft(lastMatch.path, {"/"})

\* the offsets at which a segment of path p starts
SegmentStarts(p) == {0} \cup {k \in 1..Len(p) : p[k] = "/"}

Positions == {pos \in TreeIds \X SegmentStarts(TrimmedPath) : tree[pos[1]].kind = "tree"}

IsLastSegment(p, next) == IndexOf(GoFrom(p, next), "/") = -1

\* the children of t that are tried at the position, in the order tried: the
\* leaves for the last segment; otherwise the subtrees and then the trailing
\* match-all leaf
Tried(t, p, next) ==
    IF IsLastSegment(p, next) THEN tree[t].leaves
    ELSE tree[t].subtrees
         \o (IF hasMatchAllLeaf(tree, t) THEN <<Last(tree[t].leaves)>> ELSE <<>>)

\* the complete match reached through child c alone: [ok, leaf]
Through(c, p, next) ==
    LET i   == IndexOf(GoFrom(p, next), "/")
        seg == IF i = -1 THEN GoFrom(p, next) ELSE GoSlice(p, next, next + i)
        nx  == next + i + 1
    IN
    IF tree[c].kind = "leaf" THEN
       LET m == IF i = -1 THEN leafMatch(tree[c], seg, NoParams, NoHeader)
                ELSE leafMatchAll(tree[c], p, seg, nx, NoParams, NoHeader)
       IN [ok |-> m.ok, leaf |-> IF m.ok THEN c ELSE 0]
    ELSE IF tree[c].style = matchStyleAll THEN
       LET m == treeMatchAll(tree, c, p, seg, nx, NoParams, NoHeader, 1)
       IN [ok |-> m.ok, leaf |-> m.leaf]
    ELSE IF ~treeMatch(tree[c], seg, NoParams).ok THEN [ok |-> FALSE, leaf |-> 0]
    ELSE LET m == matchNextSegment(tree, c, p, nx, NoParams, NoHeader)
         IN [ok |-> m.ok, leaf |-> m.leaf]

Yielding(t, p, next) == {c \in Range(Tried(t, p, next)) : Through(c, p, next).ok}

\* what Match returns at the position
Returned(t, p, next) == matchNextSegment(tree, t, p, next, NoParams, NoHeader)

\* a lower style first, and among equal styles the child registered first
Precedes(c, d) ==
    \/ tree[c].style < tree[d].style
    \/ tree[c].style = tree[d].style /\ InsertedBefore(c, d)

\* in the order tried
TriedBefore(t, p, next, c, d) ==
    LET cs == Tried(t, p, next) IN
    \E i, j \in 1..Len(cs) : i < j /\ cs[i] = c /\ cs[j] = d

MatchRecorded ==
    /\ lastMatch.ok = Returned(Root, TrimmedPath, 0).ok
    /\ lastMatch.leaf = Returned(Root, TrimmedPath, 0).leaf

\* C7 (as stated): when several children at one tree position could match the
\* request path, Match returns the leaf reached through the child that comes
\* first by style, and by registration among equal styles, among all the
\* children of the position that yield a complete match.
C7_FirstByStyleThenRegistration ==
    lastMatch.called =>
        /\ MatchRecorded
        /\ \A pos \in Positions :
            LET t == pos[1]
                y == Yielding(t, TrimmedPath, pos[2])
                ret == Returned(t, TrimmedPath, pos[2])
            IN IF y = {} THEN ~ret.ok
               ELSE /\ ret.ok
                    /\ \E c \in y : /\ \A d \in y \ {c} : Precedes(c, d)
                                    /\ ret.leaf = Through(c, TrimmedPath, pos[2]).leaf

\* C7 (amended): Match returns the leaf reached through the first child that
\* yields a complete match in the order the children are tried: the subtrees
\* in list order and then the trailing match-all leaf (for the last path
\* segment, the leaves in list order).  Within one list a lower style wins and
\* among equal styles the child registered first wins; a match-all subtree
\* wins over the match-all leaf of the same node whichever was registered
\* first.
C7_FirstInOrderTried ==
    lastMatch.called =>
        /\ MatchRecorded
        /\ \A pos \in Positions :
            LET t == pos[1]
                p == TrimmedPath
                y == Yielding(t, p, pos[2])
                ret == Returned(t, p, pos[2])
            IN IF y = {} THEN ~ret.ok
               ELSE /\ ret.ok
                    /\ \E c \in y :
                        /\ \A d \in y \ {c} :
                              /\ TriedBefore(t, p, pos[2], c, d)
                              /\ tree[c].kind = tree[d].kind => Precedes(c, d)
                              /\ tree[c].kind # tree[d].kind => tree[c].kind = "tree"
                        /\ ret.leaf = Through(c, p, pos[2]).leaf

\* two regex leaves of the root both match "/1"; the one registered first is
\* returned
C7_Witness ==
    /\ lastMatch.called
    /\ lastMatch.ok
    /\ TrimmedPath = <<"1">>
    /\ \E c, d \in Yielding(Root, TrimmedPath, 0) :
          /\ c # d
          /\ tree[c].style = matchStyleRegex
          /\ tree[d].style = matchStyleRegex
          /\ InsertedBefore(c, d)
          /\ lastMatch.leaf = c

(***************************************************************************)
(* Match-all capture limits                                                *)
(***************************************************************************)
CaptureIdent == <<"c", "a", "p", "t", "u", "r", "e">>

\* the segment declares `capture: N` on a match-all bind
DeclaresCapture(seg) ==
    /\ ~seg.nil
    /\ checkMatchStyleAll(seg).ok
    /\ seg.Elements[1].kind = "BindParameters"
    /\ Len(seg.Elements[1].Parameters) > 1
    /\ seg.Elements[1].Parameters[2].Ident = CaptureIdent

DeclaredCapture(seg) == Atoi(seg.Elements[1].Parameters[2].value)

\* v is a run of whole segments of path p, and the number of them
WholeSegments(v, p) ==
    \E a \in 0..Len(p), b \in 0..Len(p) :
        /\ a <= b
        /\ GoSlice(p, a, b) = v
        /\ (a = 0 \/ p[a] = "/")
        /\ (b = Len(p) \/ p[b + 1] = "/")
SegmentCount(v) == Count(v, "/") + 1

\* the match-all nodes with a declared capture of at least n on the way from
\* the root to the matched leaf
CapturingNodes(n) ==
    IF ~(lastMatch.called /\ lastMatch.ok) THEN {}
    ELSE {c \in Range(Ancestors(tree, lastMatch.leaf)) :
             /\ tree[c].style = matchStyleAll
             /\ DeclaresCapture(tree[c].segment)
             /\ DeclaredCapture(tree[c].segment) >= n}

CaptureRespected(n) ==
    \A c \in CapturingNodes(n) :
        LET v == lastMatch.params[tree[c].binds[1]] IN
        /\ SegmentCount(v) <= DeclaredCapture(tree[c].segment)
        /\ WholeSegments(v, TrimmedPath)

\* /a/{x: **, capture: 2} is the only route
OnlyCapTwo ==
    /\ nadds = 1
    /\ lastAdd.route = Route(<<Lit("a"), AllCap("x", "2")>>)
    /\ lastMatch.called

CapTwoExample ==
    OnlyCapTwo =>
        /\ lastMatch.path = PathOf(<<<<"a">>, <<"1">>, <<"1">>>>)
              => lastMatch.ok /\ lastMatch.params[<<"x">>] = <<"1", "/", "1">>
        /\ lastMatch.path = PathOf(<<<<"a">>, <<"1">>, <<"1">>, <<"1">>>>)
              => ~lastMatch.ok

\* C8 (as stated): a match-all bind declared with capture: N matches only when
\* it absorbs at most N path segments, whatever N is, and its parameter value
\* is the absorbed segments joined by "/".
C8_CaptureLimitAnyN == CaptureRespected(0) /\ CapTwoExample

\* C8 (amended): a match-all bind declared with capture: N, N >= 1, matches
\* only when it absorbs at most N path segments, and its parameter value is
\* the absorbed segments joined by "/"; /a/{x: **, capture: 2} matches /a/1/1
\* with x = "1/1" and does not match /a/1/1/1.  (capture: 0 sets no limit.)
C8_CaptureLimitPositiveN == CaptureRespected(1) /\ CapTwoExample

\* /a/{x: **, capture: 2} has matched /a/1/1 with x = "1/1"
C8_Witness ==
    /\ OnlyCapTwo
    /\ lastMatch.ok
    /\ lastMatch.path = PathOf(<<<<"a">>, <<"1">>, <<"1">>>>)
    /\ CapturingNodes(1) # {}
    /\ lastMatch.params[<<"x">>] = <<"1", "/", "1">>

(***************************************************************************)
(* Claims about the router                                                 *)
(***************************************************************************)
\* the leaves of method m's tree that are purely static and carry no header
\* matcher
PlainStaticLeaves(m) ==
    {l \in 1..Len(routeTrees[m]) :
        Static(routeTrees[m], l) /\ routeTrees[m][l].headerMatcher.nil}

\* what tree traversal yields for the request: the leaf, or 0
Traversal(m, path, header) ==
    LET r == TreeMatch(routeTrees[m], path, header) IN IF r.ok THEN r.leaf ELSE 0

\* C9: for every registered purely-static leaf without a header matcher and
\* every request (method, path), the lookup in the static fast map yields that
\* leaf exactly when tree traversal of the same method and path yields it.
C9_FastMapAgreesWithTree ==
    \A m \in DOMAIN routeTrees : \A l \in PlainStaticLeaves(m) :
        \A path \in RequestPaths, header \in RequestHeaders :
            (StaticLookup(staticRoutes, m, path) = l) <=> (Traversal(m, path, header) = l)

\* C10: no leaf that carries a header matcher is present in the static fast
\* map.
C10_NoHeaderMatcherInFastMap ==
    \A m \in DOMAIN staticRoutes : \A key \in DOMAIN staticRoutes[m] :
        routeTrees[m][staticRoutes[m][key]].headerMatcher.nil

\* Headers was called on a purely static route, which has left the fast map,
\* while the fast map still serves another route
C10_Witness ==
    \E m \in DOMAIN routeTrees : \E l \in 1..Len(routeTrees[m]) :
        /\ Static(routeTrees[m], l)
        /\ ~routeTrees[m][l].headerMatcher.nil
        /\ \E i \in 1..Len(routes) : m \in DOMAIN routes[i] /\ routes[i][m] = l
        /\ LeafRoute(routeTrees[m], l) \notin DOMAIN staticRoutes[m]
        /\ DOMAIN staticRoutes[m] # {}

\* the header matcher Headers has set on the route registered with handler h,
\* for method m; NoHeaderMatcher when Headers was not called on it (handlers
\* are numbered as the routes are handed out)
MatcherOfRoute(h, m) ==
    IF h \in 1..Len(routes) /\ m \in DOMAIN routes[h]
      THEN routeTrees[m][routes[h][m]].headerMatcher
      ELSE NoHeaderMatcher

\* C11: once Headers has been set on a route, the route's handler is invoked
\* only for requests whose headers satisfy every configured header match, for
\* every request path the route matches (the form without a trailing optional
\* segment included).
C11_HandlerOnlyWhenHeadersMatch ==
    (lastServe.called /\ lastServe.handler # 0)
        => LET matcher == MatcherOfRoute(lastServe.handler, lastServe.method) IN
           matcher.nil \/ HeaderMatch(matcher, lastServe.header)

(***************************************************************************)
(* Rendering a leaf's path and matching it again                           *)
(***************************************************************************)
\* the values as Match reports them: percent-decoded where that is possible
Decoded(vals) == [k \in DOMAIN vals |-> PathUnescapeOrKeep(vals[k])]

\* the name an element binds: {name} or the first parameter of {name: ...}
BoundName(e) == IF e.kind = "BindIdent" THEN e.text ELSE e.Parameters[1].Ident

BindingElements(seg) ==
    {i \in 1..Len(seg.Elements) : seg.Elements[i].kind # "Ident"}

RouteBindNames(r) ==
    UNION {{BoundName(r.Segments[i].Elements[j]) : j \in BindingElements(r.Segments[i])} :
              i \in 1..Len(r.Segments)}

\* the literal characters written in a segment next to its binds
SegmentLiterals(seg) ==
    UNION {Range(seg.Elements[j].text) :
              j \in {i \in 1..Len(seg.Elements) : seg.Elements[i].kind = "Ident"}}

\* whether the value can stand for the bind of element e of the segment: a
\* match-all bind takes whole path segments within its capture limit; any
\* other bind takes a non-empty text without "/" and without the segment's
\* own literals, which its regex accepts
ValueFits(seg, e, v) ==
    IF checkMatchStyleAll(seg).ok
      THEN /\ v # <<>> /\ Head(v) # "/" /\ Last(v) # "/"
           /\ checkMatchStyleAll(seg).capture > 0
                => Count(v, "/") + 1 <= checkMatchStyleAll(seg).capture
      ELSE /\ v # <<>>
           /\ Range(v) \cap ({"/"} \cup SegmentLiterals(seg)) = {}
           /\ e.kind = "BindParameters"
                => \A c \in Range(v) : InClass(c, e.Parameters[1].value[1])

\* the value map names exactly the binds of the route, each with a value
\* that fits its segment
ValuesFit(r, vals) ==
    /\ DOMAIN vals = RouteBindNames(r)
    /\ \A i \in 1..Len(r.Segments) : \A j \in BindingElements(r.Segments[i]) :
          ValueFits(r.Segments[i], r.Segments[i].Elements[j],
                    vals[BoundName(r.Segments[i].Elements[j])])

\* the leaf that stands for the whole route, not for its form without the
\* optional segment
FullFormLeaf(nodes, l) ==
    Len(Ancestors(nodes, nodes[l].parent)) = Len(nodes[l].route.Segments)

\* every leaf of the tree belongs to the route of leaf l
OnlyRoute(nodes, l) ==
    \A n \in 1..Len(nodes) : nodes[n].kind = "leaf" => nodes[n].route = nodes[l].route

\* a path has been rendered with the optional segments and matched again
RenderedAndMatched ==
    /\ lastURL.called /\ lastURL.withOptional
    /\ lastMatch.called /\ lastMatch.path = lastURL.path

HeaderWrittenAtMostOnce == Len(HeaderCodes(wUnder)) <= 1

\* once the wrapped writer's WriteHeader has been called and the status is
\* set, no step changes the code it was called with or the status
HeaderWriteFinal ==
    [][(HeaderCodes(wUnder) # <<>> /\ wStatus # 0)
          => (HeaderCodes(wUnder') = HeaderCodes(wUnder) /\ wStatus' = wStatus)]_vars

\* a Write or a Flush came first: the one header write carries 200
ImplicitHeaderIsOK ==
    \A g \in Goroutines :
        (wProc[g].at = "WriteHeader" /\ wProc[g].ret \in {"body", "flush"})
            => wProc[g].code = StatusOK

\* C13 (as stated): across any interleaving of WriteHeader, Write and Flush
\* calls the wrapped writer's WriteHeader is called at most once, and from
\* that call on Status() reports its code (200 when a Write or Flush came
\* first); later WriteHeader calls change nothing.
C13_StatusFromUnderlyingCall ==
    /\ [](HeaderWrittenAtMostOnce /\ ImplicitHeaderIsOK)
    /\ []((wObs.called /\ wObs.under # <<>>) => wObs.value = wObs.under[1])
    /\ HeaderWriteFinal

\* C13 (amended): the wrapped writer's WriteHeader is called at most once
\* (with 200 when a Write or Flush came first); Status() reports 0 or the
\* code of that call, and reports that code from the moment the call of
\* WriteHeader, Write or Flush that made it has returned; later WriteHeader
\* calls change nothing.
C13_StatusFromReturn ==
    /\ [](HeaderWrittenAtMostOnce /\ ImplicitHeaderIsOK)
    /\ [](wStatus # 0 => (HeaderCodes(wUnder) # <<>> /\ wStatus = HeaderCodes(wUnder)[1]))
    /\ []((wObs.called /\ wObs.returned /\ wObs.under # <<>>)
             => wObs.value = wObs.under[1])
    /\ HeaderWriteFinal

\* WriteHeader(404) has returned, a second WriteHeader(200) has come and gone,
\* and Status() has reported 404
C13_Witness ==
    /\ wObs.called /\ wObs.returned
    /\ wObs.under = <<404>> /\ wObs.value = 404
    /\ wCalls >= 3
    /\ \A g \in Goroutines : wProc[g].at = "idle"
    /\ HeaderCodes(wUnder) = <<404>>

\* the ids of the hooks, in reverse order of registration
ReverseIds(before) == [k \in 1..Len(before) |-> before[Len(before) - k + 1].id]

\* the runs of the hooks that were registered when the first header write began
RunsOfFirst ==
    SelectSeq(wHookLog, LAMBDA id : \E k \in 1..Len(wAtFirst) : wAtFirst[k].id = id)

\* C14: every before-write hook registered before the first header write
\* has run exactly once, in reverse order of registration, by the time the
\* wrapped writer's WriteHeader is called; no hook runs twice or out of that
\* order, and no later Write or WriteHeader runs a hook again.
C14_HooksOnceLIFOBeforeHeader ==
    /\ [](HeaderCodes(wUnder) # <<>> => RunsOfFirst = ReverseIds(wAtFirst))
    /\ [](\A i, j \in 1..Len(wHookLog) : i < j => wHookLog[i] > wHookLog[j])
    /\ [][HeaderCodes(wUnder) # <<>> => wHookLog' = wHookLog]_vars

\* two hooks were registered, the header was written after hook 2 and then
\* hook 1 had run, and a later Write has reached the wrapped writer
C14_Witness ==
    /\ Len(wAtFirst) = 2
    /\ wHookLog = <<2, 1>>
    /\ HeaderCodes(wUnder) = <<404>>
    /\ Len(wUnder) = 2 /\ wUnder[2] = UnderWrite
    /\ wCalls >= 2
    /\ \A g \in Goroutines : wProc[g].at = "idle"

(***************************************************************************)
(* Cancellation of the request                                             *)
(***************************************************************************)
\* the events a step adds to the log
NewEvents == {log'[k] : k \in (Len(log) + 1)..Len(log')}

\* C15: when the request is cancelled as the run loop is about to select the
\* next handler, the loop exits (its frame returns) and from then on no
\* handler of the chain, nor the action, is invoked.
C15_CancelStopsChain ==
    /\ [][(InRunLoop /\ index <= Len(handlers) /\ cancelled /\ stack' # stack)
             => (stack' = Pop(stack) /\ index' = index)]_vars
    /\ [][cancelled => \A e \in NewEvents : e.ev # "enter"]_vars

\* the first handler called Next, the second ran while the request was
\* cancelled, and the chain ended with the third handler and the action
\* never invoked
C15_Witness ==
    /\ cancelled
    /\ stack = <<>>
    /\ Len(handlers) = 3
    /\ action # NilHandler
    /\ {log[k].idx : k \in {n \in LogPos : log[n].ev = "enter"}} = {0, 1}
    /\ \E k \in LogPos : log[k].ev = "post" /\ log[k].idx = 0

(***************************************************************************)
(* Claims about the application                                            *)
(***************************************************************************)
\* the arrays behind the middleware list and the closures' handler lists
SharedArrays == {fHandlers.arr, routeHandlers.arr, notFoundHandlers.arr} \ {0}

\* C16: serving a request never writes to the array of the middleware list
\* or of a route's handler list; the merged list of each request lives in an
\* array that request allocated, shared with nothing.
C16_MergedListIsFresh ==
    /\ [](\A w \in fWrites : owner[w.arr] = w.req /\ w.arr \notin SharedArrays)
    /\ [](\A q \in Requests : reqs[q].at \in {"run", "done"} /\ reqs[q].hs.arr # 0
             => /\ owner[reqs[q].hs.arr] = q
                /\ Elems(heap, reqs[q].hs) =
                     Elems(heap, fHandlers) \o
                     Elems(heap, IF reqs[q].matched THEN routeHandlers
                                 ELSE notFoundHandlers))
    /\ [][Serving => \A a \in SharedArrays : heap'[a] = heap[a]]_vars

\* both requests were served over a middleware slice with a spare cell, one
\* by the route and one by not-found, each from its own array
C16_Witness ==
    /\ fHandlers.arr # 0 /\ fHandlers.len < Cap(heap, fHandlers)
    /\ reqs[1].at = "done" /\ reqs[2].at = "done"
    /\ reqs[1].matched /\ ~reqs[2].matched
    /\ reqs[1].hs.arr # 0 /\ reqs[2].hs.arr # 0
    /\ reqs[1].hs.arr # reqs[2].hs.arr
    /\ fWrites = {[req |-> 1, arr |-> reqs[1].hs.arr], [req |-> 2, arr |-> reqs[2].hs.arr]}

\* the events of request q, in order
EventsOf(q) == SelectSeq(fLog, LAMBDA e : e.req = q)

\* C17: the before-hooks of a request run in registration order and before
\* its routing; once one has returned true, no later before-hook runs and
\* neither the route's chain nor the not-found chain runs for that request.
C17_BeforesFIFOAndShortCircuit ==
    \A q \in Requests :
        LET evs == EventsOf(q) IN
        \A k \in 1..Len(evs) :
            /\ evs[k].ev = "before" => evs[k].n = k
            /\ evs[k].ev # "before" =>
                  /\ k = Len(fBefores) + 1
                  /\ \A j \in 1..Len(fBefores) : ~fBefores[j]
            /\ (evs[k].ev = "before" /\ fBefores[evs[k].n]) => k = Len(evs)

\* the first before-hook returned false, the second true: request 1 ended
\* there with the route never run although it matched
C17_Witness ==
    /\ fBefores = <<FALSE, TRUE>>
    /\ reqs[1].at = "done" /\ reqs[1].matched
    /\ [k \in 1..Len(EventsOf(1)) |-> <<EventsOf(1)[k].ev, EventsOf(1)[k].n>>]
          = << <<"before", 1>>, <<"before", 2>> >>

(***************************************************************************)
(* Claims about the injector                                               *)
(***************************************************************************)
\* the store of an injector, its keys that satisfy an interface type, and
\* the values the lookup order of the statement allows for (inj, t)
Store(inj) == injValues[inj]
Satisfying(inj, t) ==
    {k \in DOMAIN Store(inj) : t \in {"I1", "I2", "I12"} /\ MethodSet(t) \subseteq MethodSet(k)}

RECURSIVE Allowed(_, _)
Allowed(inj, t) ==
    IF t \in DOMAIN Store(inj) THEN {Store(inj)[t]}
    ELSE IF Satisfying(inj, t) # {} THEN {Store(inj)[k] : k \in Satisfying(inj, t)}
    ELSE IF injParent[inj] # 0 THEN Allowed(injParent[inj], t)
    ELSE {0}

\* C18: Value(T) returns the value stored under exactly T in this store if
\* there is one; otherwise, if T is an interface type, a value of this store
\* whose stored type implements T; otherwise the result of the parent's
\* Value(T); otherwise no value.
C18_ValueLookupOrder ==
    lastValue.called => lastValue.val \in Allowed(lastValue.inj, lastValue.t)

\* the child holds a C1 and its parent a value mapped to I1: Value(I1) on the
\* child is the child's C1, which implements I1
C18_Witness ==
    /\ lastValue.called /\ lastValue.inj = 1 /\ lastValue.t = "I1"
    /\ injParent[1] = 2
    /\ DOMAIN Store(1) = {"C1"}
    /\ "I1" \in DOMAIN Store(2)
    /\ lastValue.val = Store(1)["C1"]

\* C19: Invoke(fn) returns "value not found for type T" without calling fn
\* when a parameter type T of fn has no value in the store or its parent
\* chain; otherwise it calls fn exactly once with the looked-up values in
\* parameter order.
C19_InvokeAllOrNothing ==
    /\ [](lastInvoke.called =>
            LET fn == lastInvoke.fn
                missing == {i \in 1..Len(fn) : Allowed(lastInvoke.inj, fn[i]) = {0}}
            IN IF missing # {}
                 THEN /\ lastInvoke.err \in {fn[i] : i \in missing}
                      /\ lastInvoke.calls = 0
                 ELSE /\ lastInvoke.err = ""
                      /\ lastInvoke.calls = 1
                      /\ Len(lastInvoke.in) = Len(fn)
                      /\ \A i \in 1..Len(fn) :
                            lastInvoke.in[i] \in Allowed(lastInvoke.inj, fn[i]) \ {0}
                      /\ fnCalls # <<>> /\ fnCalls[Len(fnCalls)] = lastInvoke.in)
    /\ [][Len(fnCalls') = Len(fnCalls) + (IF lastInvoke'.called /\ ~lastInvoke.called
                                           THEN lastInvoke'.calls ELSE 0)]_vars

\* func(I2, C2) invoked on a child that holds a C1 while its parent holds a
\* C2: called once with the child's C1 and the parent's C2
C19_Witness ==
    /\ lastInvoke.called /\ lastInvoke.inj = 1
    /\ injParent[1] = 2
    /\ lastInvoke.fn = <<"I2", "C2">>
    /\ DOMAIN Store(1) = {"C1"} /\ DOMAIN Store(2) = {"C2"}
    /\ lastInvoke.err = ""
    /\ lastInvoke.in = <<Store(1)["C1"], Store(2)["C2"]>>
    /\ fnCalls = <<lastInvoke.in>>

(***************************************************************************)
(* Duplicated routes                                                       *)
(***************************************************************************)
\* the routes that are added again, in full or in part
OptAll(b) == Segment(TRUE, All(b).Elements)
OptHold(b) == Segment(TRUE, Hold(b).Elements)

DupRoutes ==
    { Route(<<Lit("a")>>),                              \* /a
      Route(<<Lit("a"), Lit("b")>>),                    \* /a/b
      Route(<<Lit("a"), OptLit("b")>>),                 \* /a/?b
      Route(<<Hold("x")>>),                             \* /{x}
      Route(<<Hold("x"), OptLit("b")>>),                \* /{x}/?b
      Route(<<Lit("a"), All("y")>>),                    \* /a/{y: **}
      Route(<<Lit("a"), OptAll("x")>>),                 \* /a/?{x: **}
      Route(<<Hold("x"), OptHold("x")>>) }              \* /{x}/?{x}

NextDup == \E r \in DupRoutes : AddRouteCall(r)

\* whether the leaf list of node t holds a leaf with the printable segment
HasLeaf(nodes, t, seg) ==
    /\ t # 0
    /\ \E l \in Range(nodes[t].leaves) :
          SegmentString(nodes[l].segment) = SegmentString(seg)

\* the terminal segment of r already has a leaf at its position
TerminalTaken(nodes, r) ==
    HasLeaf(nodes, Descend(nodes, Root, r, 0), Last(r.Segments))

\* r without its last segment
Shortened(r) == Route(SubSeq(r.Segments, 1, Len(r.Segments) - 1))

\* r is optional and the segment before its optional one already has a leaf
\* where the form without the optional segment goes
ParentTaken(nodes, r) ==
    /\ Len(r.Segments) >= 2
    /\ Last(r.Segments).Optional
    /\ TerminalTaken(nodes, Shortened(r))

NoTwoLeavesAlike ==
    \A t \in TreeIds : \A i, j \in 1..Len(tree[t].leaves) :
        i # j => SegmentString(tree[tree[t].leaves[i]].segment)
                   # SegmentString(tree[tree[t].leaves[j]].segment)

AddedOver(nodes, r) == TerminalTaken(nodes, r) \/ ParentTaken(nodes, r)

\* the names bound in a segment
SegmentBindNames(seg) == {BoundName(seg.Elements[j]) : j \in BindingElements(seg)}

\* the last segment of r binds a name that an earlier segment binds
RepeatsBind(r) ==
    \E i \in 1..(Len(r.Segments) - 1) :
        SegmentBindNames(r.Segments[i]) \cap SegmentBindNames(Last(r.Segments)) # {}

RequestURLPath(raw) == Unescaped(raw)

\* a request as the server hands it to router.ServeHTTP; a request line with
\* a malformed escape is refused before any handler is called
ServeRequest(method, raw, header) ==
    /\ ValidEscapes(raw)
    /\ ServeHTTP(method, RequestURLPath(raw), header)

EscapedRoutes ==
    { Route(<<Hold("x")>>),                 \* /{x}
      Route(<<Hold("x"), Lit("b")>>),       \* /{x}/b
      Route(<<Lit("a"), Lit("b")>>) }       \* /a/b

EscapedPaths ==
    { <<"/", "a", "%", "2", "F", "b">>,       \* /a%2Fb
      <<"/", "%", "2", "5", "3", "1">>,       \* /%2531
      <<"/", "%", "6", "1">>,                 \* /%61
      <<"/", "%", "6", "1", "/", "b">>,       \* /%61/b
      <<"/", "a", "/", "b">>,                 \* /a/b
      <<"/", "1">> }                          \* /1

NextEscaped ==
    \/ \E method \in {"GET", "POST", "*"}, r \in EscapedRoutes : RouteCall(method, r)
    \/ \E method \in {"GET", "POST"}, raw \in EscapedPaths :
          ServeRequest(method, raw, NoHeader)

\* C21: a request that is not served from the static map is matched on its
\* percent-encoded path and each captured value is decoded once after the
\* match: whichever request carried the path the router saw, the leaf and
\* the params handed to the handler are those of matching the encoded path
\* (an encoded slash stays inside its segment, no value is decoded twice).
C21_MatchesEncodedPathDecodesOnce ==
    (lastServe.called /\ lastServe.via # "static"
        /\ lastServe.method \in DOMAIN routeTrees) =>
    \A raw \in EscapedPaths :
        RequestURLPath(raw) = lastServe.path =>
        LET nodes == routeTrees[lastServe.method]
            m == TreeMatch(nodes, raw, lastServe.header)
        IN /\ m.ok <=> lastServe.via = "tree"
           /\ m.ok => /\ lastServe.leaf = m.leaf
                      /\ lastServe.params =
                            Put(m.params, RouteKey, LeafRoute(nodes, m.leaf))

(***************************************************************************)
(* router.URLPath: key-value pairs to the leaf renderer                    *)
(***************************************************************************)
WithOptionalKey == <<"w", "i", "t", "h", "O", "p", "t", "i", "o", "n", "a", "l">>
TrueWord        == <<"t", "r", "u", "e">>

\* `for i := 1; i < len(pairs); i += 2 { vals[pairs[i-1]] = pairs[i] }`
RECURSIVE PairsVals(_, _)
PairsVals(pairs, vals) ==
    IF Len(pairs) < 2 THEN vals
    ELSE PairsVals(GoFrom(pairs, 2), Put(vals, pairs[1], pairs[2]))

\* `vals["withOptional"] == "true"`; a missing key reads as ""
WantsOptional(vals) ==
    WithOptionalKey \in DOMAIN vals /\ vals[WithOptionalKey] = TrueWord

\* router.URLPath(name, pairs...) for the name of leaf l
RouterURLPath(l, pairs) ==
    \E vals \in {PairsVals(pairs, NoParams)} :
        IF WantsOptional(vals)
          THEN URLPathCall(l, MapDelete(vals, WithOptionalKey), TRUE)
          ELSE URLPathCall(l, vals, FALSE)

PairRoutes ==
    { Route(<<Hold("x")>>),                                             \* /{x}
      Route(<<Segment(FALSE, <<ElemBindIdent(WithOptionalKey)>>)>>),    \* /{withOptional}
      Route(<<Lit("a"), OptLit("b")>>),                                 \* /a/?b
      Route(<<Hold("x"), OptLit("b")>>) }                               \* /{x}/?b

PairWords == {<<"x">>, WithOptionalKey, TrueWord, <<"1">>}
MaxPairWords == 4
PairLists == UNION {[1..n -> PairWords] : n \in 0..MaxPairWords}

NextPairs ==
    \/ \E r \in PairRoutes : nadds < MaxURLRoutes /\ AddRouteCall(r)
    \/ \E l \in 1..(2 * MaxURLRoutes + 2), pairs \in PairLists : RouterURLPath(l, pairs)

\* C22: whatever pairs router.URLPath is given, the value map it hands to
\* the leaf's renderer does not contain the key withOptional.
C22_WithOptionalNeverPassedOn ==
    lastURL.called => WithOptionalKey \notin DOMAIN lastURL.vals

(***************************************************************************)
(* Invocation failure                                                      *)
(***************************************************************************)
\* the handler at 0-based position i of the chain, counted from one
OrdinalFromOne(i) == ordinalize(i + 1)

\* C23: when the invocation of a handler fails on a missing dependency the
\* run panics: nothing runs afterwards, and the message names the handler's
\* position counted from one ("1st" for the first handler) and the handler.
C23_PanicNamesOrdinalFromOne ==
    \A k \in 1..Len(log) :
        log[k].ev = "panic" =>
            /\ panicked /\ stack = <<>> /\ k = Len(log)
            /\ log[k].msg.handler = SelectHandler(log[k].idx)
            /\ log[k].msg.handler.missing
            /\ log[k].msg.ordinal = OrdinalFromOne(log[k].idx)

(***************************************************************************)
(* The route parser (internal/route/parser.go, definition.go)              *)
(***************************************************************************)
\* the character classes of the lexer's patterns
IdentChars == Letters \cup Digits \cup
    {"-", ".", "_", "~", "@", "!", "$", "&", "'", "(", ")", "*", "+", ";", "%", "="}
RegexChars == Letters \cup Digits \cup
    {"*", "-", "+", ".", "_", ",", "?", "(", ")", "[", "]", "{", "}", " ", "\\", "|"}
WhitespaceChars == {" ", "\t"}

\* a lexer rule: the token's name, its pattern (one character of a class,
\* or a run of them), and the state pushed or popped when it matches
Rule(name, chars, many, push, pop) ==
    [name |-> name, chars |-> chars, many |-> many, push |-> push, pop |-> pop]

CommonRules ==
    << Rule("Ident", IdentChars, TRUE, "", FALSE),
       Rule("Whitespace", WhitespaceChars, FALSE, "", FALSE) >>

\* stateful.Rules: the rules of each lexer state, in order
LexRules(state) ==
    CASE state = "Root" ->
           << Rule("Segment", {"/"}, FALSE, "Segment", FALSE) >>
      [] state = "Segment" ->
           CommonRules \o
           << Rule("Optional", {"?"}, FALSE, "", FALSE),
              Rule("Bind", {"{"}, FALSE, "Bind", FALSE),
              Rule("Segment", {"/"}, FALSE, "Segment", FALSE) >>
      [] state = "Bind" ->
           CommonRules \o
           << Rule("BindParameter", {":"}, FALSE, "BindParameter", FALSE),
              Rule("Bind", {"{"}, FALSE, "Bind", FALSE),
              Rule("BindEnd", {"}"}, FALSE, "", TRUE),
              Rule("Segment", {"/"}, FALSE, "Segment", FALSE) >>
      [] state = "BindParameter" ->
           CommonRules \o
           << Rule("BindParameterRegexValue", {"/"}, FALSE, "BindParameterRegexValue", FALSE),
              Rule("BindParameterEnd", {"}", ","}, FALSE, "", TRUE) >>
      [] state = "BindParameterRegexValue" ->
           << Rule("Regex", RegexChars, TRUE, "", FALSE),
              Rule("RegexEnd", {"/"}, FALSE, "", TRUE) >>

Token(type, value) == [type |-> type, value |-> value]

\* the length of the longest prefix of s made of the characters of chars
RECURSIVE RunLength(_, _)
RunLength(s, chars) ==
    IF s = <<>> \/ Head(s) \notin chars THEN 0 ELSE 1 + RunLength(Tail(s), chars)

\* one step of the stateful lexer: the first rule of the current state that
\* matches at the current position gives the next token and the next state
LexStep(s, states) ==
    LET rules == LexRules(Last(states))
        hits == {k \in 1..Len(rules) : Head(s) \in rules[k].chars}
    IN IF hits = {} THEN [hit |-> FALSE, token |-> Token("", <<>>), s |-> s, states |-> states]
       ELSE LET rule == rules[CHOOSE k \in hits : \A j \in hits : k <= j]
                n == IF rule.many THEN RunLength(s, rule.chars) ELSE 1
            IN [hit |-> TRUE, token |-> Token(rule.name, GoSlice(s, 0, n)),
                s |-> GoFrom(s, n),
                states |-> IF rule.pop THEN Pop(states)
                           ELSE IF rule.push # "" THEN Append(states, rule.push)
                           ELSE states]

\* the stateful lexer: the tokens of s; no rule matching is an error
RECURSIVE Lex(_, _, _)
Lex(s, states, tokens) ==
    IF s = <<>> THEN [ok |-> TRUE, tokens |-> tokens]
    ELSE CHOOSE r \in
           { IF st.hit THEN Lex(st.s, st.states, Append(tk, st.token))
             ELSE [ok |-> FALSE, tokens |-> tk] :
               st \in {LexStep(s, states)}, tk \in {tokens} } : TRUE

\* the outcome of a grammar node: whether it matched, its value, the tokens left
ParseFail == [ok |-> FALSE, val |-> <<>>, rest |-> <<>>]
ParseOk(val, rest) == [ok |-> TRUE, val |-> val, rest |-> rest]

\* a literal of the grammar matches the next token by its value, @Ident by its type
NextIs(toks, value) == toks # <<>> /\ Head(toks).value = <<value>>
NextIsType(toks, type) == toks # <<>> /\ Head(toks).type = type

\* ' '*
RECURSIVE SkipSpaces(_)
SkipSpaces(toks) == IF NextIs(toks, " ") THEN SkipSpaces(Tail(toks)) ELSE toks

\* BindParameterValue: @Ident | '/' @Regex '/'
ParseValue(toks) ==
    IF NextIsType(toks, "Ident")
      THEN ParseOk([kind |-> "Literal", value |-> Head(toks).value], Tail(toks))
    ELSE IF /\ NextIs(toks, "/")
            /\ NextIsType(Tail(toks), "Regex")
            /\ NextIs(Tail(Tail(toks)), "/")
      THEN ParseOk([kind |-> "Regex", value |-> toks[2].value], GoFrom(toks, 3))
    ELSE ParseFail

\* BindParameter: @Ident ':' ' '* @@
ParseParameter(toks) ==
    IF NextIsType(toks, "Ident") /\ NextIs(Tail(toks), ":")
      THEN LET v == ParseValue(SkipSpaces(GoFrom(toks, 2))) IN
           IF v.ok THEN ParseOk(BindParameter(Head(toks).value, v.val.kind, v.val.value), v.rest)
           ELSE ParseFail
    ELSE ParseFail

\* BindParameters: ( @@ ( ',' ' '* @@ )* )+ , after its first parameter
RECURSIVE ParseMoreParameters(_, _)
ParseMoreParameters(toks, ps) ==
    CHOOSE r \in
      { IF p.ok THEN ParseMoreParameters(p.rest, Append(ps, p.val)) ELSE ParseOk(ps, toks) :
          p \in {ParseParameter(IF NextIs(toks, ",") THEN SkipSpaces(Tail(toks)) ELSE toks)} } :
      TRUE

ParseBindParameters(toks) ==
    CHOOSE r \in
      { IF p.ok THEN ParseMoreParameters(p.rest, <<p.val>>) ELSE ParseFail :
          p \in {ParseParameter(toks)} } : TRUE

\* SegmentElement: @Ident | '{' @Ident '}' | '{' @@ '}'
ParseElement(toks) ==
    IF NextIsType(toks, "Ident") THEN ParseOk(ElemIdent(Head(toks).value), Tail(toks))
    ELSE IF ~NextIs(toks, "{") THEN ParseFail
    ELSE IF NextIsType(Tail(toks), "Ident") /\ NextIs(Tail(Tail(toks)), "}")
      THEN ParseOk(ElemBindIdent(toks[2].value), GoFrom(toks, 3))
    ELSE LET ps == ParseBindParameters(Tail(toks)) IN
         IF ps.ok /\ NextIs(ps.rest, "}")
           THEN ParseOk(ElemBindParams(ps.val), Tail(ps.rest))
           ELSE ParseFail

\* @@* over SegmentElement
RECURSIVE ParseElements(_, _)
ParseElements(toks, es) ==
    CHOOSE r \in
      { IF e.ok THEN ParseElements(e.rest, Append(es, e.val)) ELSE ParseOk(es, toks) :
          e \in {ParseElement(toks)} } : TRUE

\* Segment: '/' @'?'? @@*
ParseSegment(toks) ==
    IF ~NextIs(toks, "/") THEN ParseFail
    ELSE CHOOSE r \in
           { ParseOk(Segment(NextIs(Tail(toks), "?"), es.val), es.rest) :
               es \in {ParseElements(IF NextIs(Tail(toks), "?") THEN GoFrom(toks, 2)
                                     ELSE Tail(toks), <<>>)} } : TRUE

\* @@+ over Segment
RECURSIVE ParseSegments(_, _)
ParseSegments(toks, segs) ==
    CHOOSE r \in
      { IF seg.ok THEN ParseSegments(seg.rest, Append(segs, seg.val)) ELSE ParseOk(segs, toks) :
          seg \in {ParseSegment(toks)} } : TRUE

\* Parser.Parse(s): the route, or an error when the text does not lex, has no
\* segment, or has tokens left over
ParseTokens(lx) ==
    IF ~lx.ok THEN [ok |-> FALSE, route |-> Route(<<>>)]
    ELSE CHOOSE r \in
           { IF segs.val = <<>> \/ segs.rest # <<>> THEN [ok |-> FALSE, route |-> Route(<<>>)]
             ELSE [ok |-> TRUE, route |-> Route(segs.val)] :
               segs \in {ParseSegments(lx.tokens, <<>>)} } : TRUE

Parse(s) == CHOOSE r \in {ParseTokens(lx) : lx \in {Lex(s, <<"Root">>, <<>>)}} : TRUE

NoParse == [called |-> FALSE, ok |-> FALSE, route |-> Route(<<>>), str |-> <<>>]
ParserIdle == routeText = <<>> /\ parsed = NoParse

\* r, err := parser.Parse(routeText); r.String()
ParseCall ==
    /\ ~parsed.called
    /\ \E r \in {Parse(routeText)} :
          parsed' = [called |-> TRUE, ok |-> r.ok, route |-> r.route,
                     str |-> IF r.ok THEN RouteString(r.route) ELSE <<>>]
    /\ UNCHANGED routeText
    /\ UNCHANGED <<chainVars, treeVars, routerVars, writerVars, flameVars, injectVars>>

\* the route strings the parser is exercised with: every text of up to
\* MaxRouteText characters after the leading slash, and some longer ones
RouteChars == {"/", "?", "{", "}", ":", " ", "a"}
MaxRouteText == 5
RouteTexts ==
    { <<"/">> \o w : w \in UNION {[1..n -> RouteChars] : n \in 0..MaxRouteText} }
    \cup { <<"/", "{", "a", ":", " ", "a", "}">>,                                \* /{a: a}
           <<"/", "{", "a", ":", " ", " ", "a", "}">>,                           \* /{a:  a}
           <<"/", "{", "a", ":", " ", "/", "a", "/", "}">>,                      \* /{a: /a/}
           <<"/", "{", "a", ":", "/", "a", "/", "}">>,                           \* /{a:/a/}
           <<"/", "{", "a", ":", " ", "a", ",", " ", "b", ":", " ", "1", "}">>,  \* /{a: a, b: 1}
           <<"/", "{", "a", ":", " ", "a", ",", "b", ":", " ", "1", "}">>,       \* /{a: a,b: 1}
           <<"/", "a", "/", "?", "{", "a", "}", "-", "{", "b", "}">> }           \* /a/?{a}-{b}

InitParser == routeText \in RouteTexts /\ parsed = NoParse
NextParser == ParseCall

\* C24: for every route string the parser accepts, the String() of the
\* resulting AST equals that string character for character.
C24_StringReproducesRoute ==
    (parsed.called /\ parsed.ok) => parsed.str = routeText

(***************************************************************************)
(* Match-all subtrees: capture lengths and the fallback                    *)
(***************************************************************************)
CaptureRoutes ==
    { Route(<<All("x"), Lit("b")>>),                     \* /{x: **}/b
      Route(<<AllCap("x", "2"), Lit("b")>>),             \* /{x: **, capture: 2}/b
      Route(<<All("x"), Lit("a"), Lit("b")>>),           \* /{x: **}/a/b
      Route(<<All("y")>>),                               \* /{y: **}
      Route(<<AllCap("y", "2")>>),                       \* /{y: **, capture: 2}
      Route(<<Hold("x"), Lit("b")>>),                    \* /{x}/b
      Route(<<Lit("a"), AllCap("x", "2"), Lit("b")>>) }  \* /a/{x: **, capture: 2}/b

MaxCaptureSegments == 4
CapturePaths ==
    {PathOf(segs) : segs \in UNION {[1..n -> {<<"a">>, <<"b">>}] : n \in 1..MaxCaptureSegments}}

NextCapture ==
    \/ \E r \in CaptureRoutes : AddRouteCall(r)
    \/ \E path \in CapturePaths : MatchCall(path)

\* the 0-based positions of the slashes of p from position from on
SlashesFrom(p, from) == {j \in from..(Len(p) - 1) : p[j + 1] = "/"}
KthSlash(p, from, k) ==
    CHOOSE j \in SlashesFrom(p, from) :
        Cardinality({i \in SlashesFrom(p, from) : i <= j}) = k

\* the numbers of segments a match-all subtree may absorb from position from:
\* at least one, at least one segment left after them, at most the limit
CaptureLengths(nodes, st, p, from) ==
    {k \in 1..Cardinality(SlashesFrom(p, from)) :
        nodes[st].capture > 0 => k <= nodes[st].capture}

\* the rest of the path after k absorbed segments, matched below the subtree
Continuation(nodes, st, p, from, k) ==
    CHOOSE r \in {matchNextSegment(nodes, st, p, next, NoParams, NoHeader) :
                    next \in {KthSlash(p, from, k) + 1}} : TRUE

\* what matchAll has to return for the subtree st at the segment starting at
\* from: the continuation of the least length that works
CaptureExpected(nodes, st, p, from, r) ==
    LET good == {k \in CaptureLengths(nodes, st, p, from) :
                    Continuation(nodes, st, p, from, k).ok}
    IN IF good = {} THEN ~r.ok
       ELSE LET k == CHOOSE k \in good : \A j \in good : k <= j IN
            /\ r.ok
            /\ r.leaf = Continuation(nodes, st, p, from, k).leaf
            /\ r.params[nodes[st].binds[1]] = GoSlice(p, from, KthSlash(p, from, k))

\* the trailing match-all leaf of node t, or 0
TrailingMatchAllLeaf(nodes, t) ==
    IF nodes[t].leaves # <<>> /\ nodes[Last(nodes[t].leaves)].style = matchStyleAll
      THEN Last(nodes[t].leaves) ELSE 0

\* what matchSubtree has to return once the match-all subtree of t has
\* failed: the trailing match-all leaf absorbing the rest, within its limit
FallbackExpected(nodes, t, p, from, r) ==
    LET leaf == TrailingMatchAllLeaf(nodes, t)
        segments == Cardinality(SlashesFrom(p, from)) + 1
    IN IF leaf # 0 /\ (nodes[leaf].capture > 0 => segments <= nodes[leaf].capture)
         THEN /\ r.ok /\ r.leaf = leaf
              /\ r.params[nodes[leaf].binds[1]] = GoFrom(p, from)
         ELSE ~r.ok

MatchAllSubtrees(nodes) ==
    {st \in 1..Len(nodes) : nodes[st].kind = "tree" /\ nodes[st].style = matchStyleAll}

\* C25: for the request path and every match-all subtree of the tree, at
\* every segment of the path that has a segment after it, matchAll returns
\* the continuation for the smallest number (one, two, ...) of absorbed
\* segments, within the capture limit, for which the rest of the path
\* matches below the subtree; when no number works the subtree fails and
\* its parent answers with its trailing match-all leaf, if it has one.
C25_CaptureLengthsInOrder ==
    lastMatch.called =>
    \A p \in {TrimLeft(lastMatch.path, {"/"})} :
    \A st \in MatchAllSubtrees(tree) :
    \A from \in {i \in SegmentStarts(p) : SlashesFrom(p, i) # {}} :
    \A first \in {KthSlash(p, from, 1)} :
    \A t \in {tree[st].parent} :
    \A k \in {i \in 1..Len(tree[t].subtrees) : tree[t].subtrees[i] = st} :
    \A sub \in {treeMatchAll(tree, st, p, GoSlice(p, from, first), first + 1,
                             NoParams, NoHeader, 1)} :
    \A whole \in {matchSubtreeFrom(tree, t, k, p, GoSlice(p, from, first), first + 1,
                                   NoParams, NoHeader)} :
        /\ CaptureExpected(tree, st, p, from, sub)
        /\ IF sub.ok THEN whole.ok /\ whole.leaf = sub.leaf
           ELSE FallbackExpected(tree, t, p, from, whole)

\* /{x: **}/b has matched /a/a/b after the capture of one segment failed
C25_Witness ==
    /\ lastMatch.called /\ lastMatch.ok
    /\ lastMatch.path = PathOf(<<<<"a">>, <<"a">>, <<"b">>>>)
    /\ tree[lastMatch.leaf].route = Route(<<All("x"), Lit("b")>>)
    /\ lastMatch.params[<<"x">>] = <<"a", "/", "a">>
    /\ ~Continuation(tree, tree[lastMatch.leaf].parent, GoFrom(lastMatch.path, 1), 0, 1).ok

(***************************************************************************)
(* Invocations of one request                                              *)
(***************************************************************************)
\* the log positions at which the handler at index i was invoked
InvocationsOf(i) == {p \in LogPos : log[p].ev \in {"enter", "panic"} /\ log[p].idx = i}

\* C26: within one request every handler of the chain and the action is
\* invoked at most once, and the invocations start in increasing index
\* order, whichever handlers call Next() and however often.
C26_InvokedOnceInIndexOrder ==
    /\ \A i \in 0..Len(handlers) : Cardinality(InvocationsOf(i)) <= 1
    /\ \A i, j \in 0..Len(handlers) :
          \A p \in InvocationsOf(i), q \in InvocationsOf(j) : i < j => p < q
    /\ \A p \in LogPos : log[p].ev \in {"enter", "panic"} => log[p].idx \in 0..Len(handlers)

\* the first handler called Next() twice; the second handler and the action
\* ran once each, during the first Next()
C26_Witness ==
    /\ handlers = <<Handler(<<"Next", "Next">>, FALSE, FALSE), Handler(<<>>, FALSE, FALSE)>>
    /\ action = Handler(<<>>, FALSE, FALSE)
    /\ stack = <<>>
    /\ Cardinality({p \in LogPos : log[p].ev = "next" /\ log[p].idx = 0}) = 2
    /\ \A i \in 0..2 : Cardinality(InvocationsOf(i)) = 1

AddRouteFailed ==
    nadds' = nadds + 1 /\ lastAdd'.err \notin {"", "panic"}

\* C28: an AddRoute call that returns an error leaves the tree exactly as
\* it was before the call.
C28_FailedAddRouteLeavesTree ==
    [][AddRouteFailed => tree' = tree]_vars

\* C29: AddRoute returns a leaf or an error and never aborts abnormally,
\* also for a route whose only segment is optional (the root, which has no
\* segment and no parent, is then the leaf's parent).
C29_AddRouteNeverAborts ==
    lastAdd.called =>
        /\ lastAdd.err # "panic"
        /\ (lastAdd.err = "") = (lastAdd.leaf # 0)

(***************************************************************************)
(* Calls on the ResponseWriter return                                      *)
(***************************************************************************)
\* goroutine g takes the next step of the call it is in
WriterStep(g) ==
    \/ OnceDo(g)
    \/ WriteHeaderOnce(g)
    \/ callBefore(g)
    \/ UnderlyingWriteHeader(g)
    \/ StoreStatus(g)
    \/ WriteBody(g)
    \/ FlushBody(g)

\* C30: every call of WriteHeader or Write on the wrapper returns, also when
\* a before-write hook running inside it writes to the same wrapper: a
\* goroutine that is inside a call is eventually outside of it again.
C30_EveryCallReturns ==
    \A g \in Goroutines : (wProc[g].at # "idle") ~> (wProc[g].at = "idle")

(***************************************************************************)
(* Specifications                                                          *)
(***************************************************************************)
TreeIdle ==
    /\ tree = NewTree /\ nadds = 0 /\ lastAdd = NoAdd /\ lastMatch = NoMatchCall
    /\ lastURL = NoURLPath
RouterIdle ==
    /\ routeTrees = <<>> /\ staticRoutes = <<>> /\ routes = <<>>
    /\ nregs = 0 /\ routerPanic = "" /\ lastServe = NoServe
RestIdle == WriterIdle("GET") /\ FlameIdle(FALSE) /\ InjectIdle /\ ParserIdle

\* one request running through its handler chain
InitChain == InitChainVars /\ TreeIdle /\ RouterIdle /\ RestIdle
SpecChain == InitChain /\ [][NextChain]_vars

\* one route tree being built and queried
InitTree == ChainIdle /\ InitTreeVars /\ RouterIdle /\ RestIdle
SpecTree == InitTree /\ [][NextTree]_vars

\* one route tree whose leaves render paths that are then matched
SpecURL == InitTree /\ [][NextURL]_vars

\* one route tree to which routes are added over and over
SpecDup == InitTree /\ [][NextDup]_vars

\* one router being set up and serving requests
InitRouter == ChainIdle /\ TreeIdle /\ InitRouterVars /\ RestIdle
SpecRouter == InitRouter /\ [][NextRouter]_vars

\* one response writer shared by the goroutines of a request
InitWriter ==
    ChainIdle /\ TreeIdle /\ RouterIdle /\ InitWriterVars /\ FlameIdle(FALSE) /\ InjectIdle
        /\ ParserIdle
SpecWriter == InitWriter /\ [][NextWriter]_vars

\* one application set up and then serving two requests concurrently
InitFlame ==
    ChainIdle /\ TreeIdle /\ RouterIdle /\ WriterIdle("GET") /\ InitFlameVars /\ InjectIdle
        /\ ParserIdle
SpecFlame == InitFlame /\ [][NextFlame]_vars

\* two injectors, one possibly the parent of the other
InitInject ==
    ChainIdle /\ TreeIdle /\ RouterIdle /\ WriterIdle("GET") /\ FlameIdle(FALSE) /\ InjectIdle
        /\ ParserIdle
SpecInject == InitInject /\ [][NextInject]_vars

SpecEscaped == InitRouter /\ [][NextEscaped]_vars
SpecPairs == InitTree /\ [][NextPairs]_vars
InitParserOnly ==
    ChainIdle /\ TreeIdle /\ RouterIdle /\ WriterIdle("GET") /\ FlameIdle(FALSE)
        /\ InjectIdle /\ InitParser
SpecParser == InitParserOnly /\ [][NextParser]_vars
SpecCapture == InitTree /\ [][NextCapture]_vars
\* every goroutine that can take a step of its call eventually takes it
SpecWriterLive == SpecWriter /\ \A g \in Goroutines : WF_vars(WriterStep(g))
====
